---------------------------- MODULE CryptoProofs ----------------------------
(***************************************************************************)
(* Theorems about Signature and CurveChecks, the two users of crypto.c's   *)
(* curve, for every curve of the shape of Pallas, every table of the hash  *)
(* that can be run backwards, and messages of any length: signatures       *)
(* verify, the tests on the device would pass on any vector, and every     *)
(* pair of Jacobian forms but two of one point is added right.             *)
(***************************************************************************)
EXTENDS Signature, CurveChecks, PallasProofs

(* The states the sponge goes through, from s and over the blocks of input. *)
Chain(s, input) ==
    LET t[b \in 0 .. Blocks(input)] == IF b = 0 THEN s ELSE Absorb(t[b - 1], Block(input, b))
    IN  t

----------------------------------------------------------------------------
(* The inductive invariant.  What each stage has established is kept until *)
(* it is used: the multiple under construction, then the key pair and its  *)
(* address, then the nonce's point with the nonce already negated, then    *)
(* the sponge's state, and of a finished signature that it verifies.       *)
Multiplying ==
    pc \in {"pub", "point"} =>
        Represents(acc, Times(Prefix(IF pc = "pub" THEN priv ELSE k, i), AFFINE_ONE))
KeyPair ==
    pc \in {"derive", "point", "hash"} => pub = Times(priv, AFFINE_ONE) /\ compress(pub) = from
NoncePoint ==
    pc = "hash" =>
        /\ r \in Points /\ sig.rx = r.x
        /\ Times(k, AFFINE_ONE) = (IF field_is_odd(r.y) THEN Opposite(r) ELSE r)
Sponge ==
    pc = "hash" =>
        /\ block \in 1 .. Blocks(hash_msg) + 1
        /\ pos = Chain(IV, hash_msg)[block - 1]
Parameters ==
    /\ network_id \in {TESTNET_ID, MAINNET_ID}
    /\ transaction \in Transactions
    /\ i \in 0 .. SCALAR_BITS
    /\ DOMAIN sig = {"rx", "s"}
SignatureInv ==
    Parameters /\ ScalarsInRange /\ Multiplying /\ KeyPair /\ NoncePoint /\ Sponge /\ SignatureVerifies
----------------------------------------------------------------------------
(* Modular arithmetic in three terms.                                      *)
LEMMA Combination ==
    ASSUME NEW a1 \in Int, NEW a2 \in Int, NEW a3 \in Int,
           NEW b1 \in Int, NEW b2 \in Int, NEW b3 \in Int,
           NEW c1 \in Int, NEW c2 \in Int, NEW c3 \in Int,
           Cong(a1, b1), Cong(a2, b2), Cong(a3, b3)
    PROVE  Cong((a1 * c1 + a2 * c2) + a3 * c3, (b1 * c1 + b2 * c2) + b3 * c3)
<1>1. /\ a1 * c1 \in Int /\ a2 * c2 \in Int /\ a3 * c3 \in Int
      /\ b1 * c1 \in Int /\ b2 * c2 \in Int /\ b3 * c3 \in Int
    OBVIOUS
<1>2. /\ a1 * c1 + a2 * c2 \in Int /\ b1 * c1 + b2 * c2 \in Int
    BY <1>1, SMT
<1>3. Cong(c1, c1) /\ Cong(c2, c2) /\ Cong(c3, c3)
    BY CongChain
<1>4. Cong(a1 * c1, b1 * c1) /\ Cong(a2 * c2, b2 * c2) /\ Cong(a3 * c3, b3 * c3)
    BY <1>3, Modulus, SameOperations DEF Cong
<1>5. Cong(a1 * c1 + a2 * c2, b1 * c1 + b2 * c2)
    BY <1>1, <1>4, Modulus, SameOperations DEF Cong
<1> QED BY <1>1, <1>2, <1>4, <1>5, Modulus, SameOperations DEF Cong

LEMMA ByColumns ==
    ASSUME NEW t1 \in Int, NEW t2 \in Int, NEW t3 \in Int,
           NEW n1 \in Int, NEW n2 \in Int, NEW n3 \in Int,
           NEW a1 \in Int, NEW a2 \in Int, NEW a3 \in Int,
           NEW b1 \in Int, NEW b2 \in Int, NEW b3 \in Int,
           NEW c1 \in Int, NEW c2 \in Int, NEW c3 \in Int
    PROVE  (((t1 * a1 + t2 * a2) + t3 * a3) * n1 + ((t1 * b1 + t2 * b2) + t3 * b3) * n2)
               + ((t1 * c1 + t2 * c2) + t3 * c3) * n3
           = (((n1 * a1 + n2 * b1) + n3 * c1) * t1 + ((n1 * a2 + n2 * b2) + n3 * c2) * t2)
               + ((n1 * a3 + n2 * b3) + n3 * c3) * t3
BY SMTT(60)

----------------------------------------------------------------------------
(* The tables of the hash.                                                 *)
LEMMA StateIs ==
    /\ \A s \in State : \A n \in Elements : s[n] \in Field
    /\ \A s \in State : s[1] \in Field /\ s[2] \in Field /\ s[3] \in Field
    /\ \A n \in Elements : n = 1 \/ n = 2 \/ n = 3
    /\ 1 \in Elements /\ 2 \in Elements /\ 3 \in Elements
BY DEF State, Elements, SPONGE_SIZE

LEMMA TablesAre ==
    /\ FULL_ROUNDS \in Nat
    /\ \A n \in 1 .. FULL_ROUNDS + 1 : round_keys[n] \in State
    /\ \A n \in Elements : mds_matrix[n] \in State /\ mds_inverse[n] \in State
    /\ IV \in State
<1>1. round_keys \in Seq(State) /\ round_keys # <<>>
    BY TablesAssumption
<1>2. Len(round_keys) \in Nat \ {0} /\ \A n \in 1 .. Len(round_keys) : round_keys[n] \in State
    BY <1>1, EmptySeq, LenProperties, ElementOfSeq
<1> QED BY <1>2, TablesAssumption DEF FULL_ROUNDS, IV

LEMMA ProductIs ==
    ASSUME NEW a \in Int, NEW b \in Int
    PROVE  field_mul(a, b) \in Field /\ Cong(field_mul(a, b), a * b)
<1>1. Cong(a, a) /\ Cong(b, b)
    BY CongChain
<1> QED BY <1>1, FieldOperations

LEMMA DotIs ==
    ASSUME NEW u, NEW v,
           u[1] \in Field, u[2] \in Field, u[3] \in Field,
           v[1] \in Field, v[2] \in Field, v[3] \in Field
    PROVE  /\ Dot(u, v) \in Field
           /\ Cong(Dot(u, v), (u[1] * v[1] + u[2] * v[2]) + u[3] * v[3])
<1>1. /\ u[1] \in Int /\ u[2] \in Int /\ u[3] \in Int
      /\ v[1] \in Int /\ v[2] \in Int /\ v[3] \in Int
    BY Modulus
<1> DEFINE p1 == u[1] * v[1]
           p2 == u[2] * v[2]
           p3 == u[3] * v[3]
           f1 == field_mul(u[1], v[1])
           f2 == field_mul(u[2], v[2])
           f3 == field_mul(u[3], v[3])
<1>2. p1 \in Int /\ p2 \in Int /\ p3 \in Int
    BY <1>1
<1>3. /\ f1 \in Field /\ Cong(f1, p1) /\ f2 \in Field /\ Cong(f2, p2) /\ f3 \in Field /\ Cong(f3, p3)
    BY <1>1, ProductIs
<1>4. Dot(u, v) = field_add(field_add(f1, f2), f3)
    BY DEF Dot
<1>5. (u[1] * v[1] + u[2] * v[2]) + u[3] * v[3] = (p1 + p2) + p3
    OBVIOUS
<1> HIDE DEF p1, p2, p3, f1, f2, f3
<1>6. f1 \in Int /\ f2 \in Int /\ f3 \in Int /\ p1 + p2 \in Int
    BY <1>2, <1>3, Modulus
<1>7. field_add(f1, f2) \in Field /\ Cong(field_add(f1, f2), p1 + p2)
    BY <1>2, <1>3, <1>6, FieldOperations
<1>8. field_add(f1, f2) \in Int
    BY <1>7, Modulus
<1> QED BY <1>2, <1>3, <1>4, <1>5, <1>6, <1>7, <1>8, FieldOperations

(* The matrix is undone by its inverse.                                    *)
LEMMA MatrixBack ==
    ASSUME NEW t \in State
    PROVE  /\ matrix_mul(t, mds_matrix) \in State
           /\ \A n \in Elements : Dot(matrix_mul(t, mds_matrix), mds_inverse[n]) = t[n]
<1> DEFINE m == mds_matrix
           w == matrix_mul(t, m)
           L(row) == (t[1] * m[row][1] + t[2] * m[row][2]) + t[3] * m[row][3]
<1>1. t[1] \in Field /\ t[2] \in Field /\ t[3] \in Field
    BY StateIs
<1>2. \A row \in Elements : m[row][1] \in Field /\ m[row][2] \in Field /\ m[row][3] \in Field
    BY StateIs, TablesAre
<1>3. \A row \in Elements : w[row] = Dot(t, m[row])
    BY DEF matrix_mul
<1>4. \A row \in Elements : w[row] \in Field /\ Cong(w[row], L(row))
  <2> TAKE row \in Elements
  <2>1. m[row][1] \in Field /\ m[row][2] \in Field /\ m[row][3] \in Field
      BY <1>2
  <2> QED BY <1>1, <1>3, <2>1, DotIs
<1>5. w \in State
    BY <1>3, <1>4 DEF State, matrix_mul
<1>6. \A row \in Elements : L(row) \in Int /\ w[row] \in Int
  <2> TAKE row \in Elements
  <2>1. m[row][1] \in Int /\ m[row][2] \in Int /\ m[row][3] \in Int /\ t[1] \in Int /\ t[2] \in Int /\ t[3] \in Int
      BY <1>1, <1>2, Modulus
  <2>2. L(row) \in Int
      BY <2>1, SMT
  <2> QED BY <1>4, <2>2, Modulus
<1>7. ASSUME NEW n \in Elements PROVE Dot(w, mds_inverse[n]) = t[n]
  <2> DEFINE v == mds_inverse[n]
             C(col) == (v[1] * m[1][col] + v[2] * m[2][col]) + v[3] * m[3][col]
             e(col) == IF n = col THEN 1 ELSE 0
  <2>1. v[1] \in Field /\ v[2] \in Field /\ v[3] \in Field
      BY StateIs, TablesAre
  <2>2. \A col \in Elements : C(col) \in Int /\ Cong(C(col), e(col))
    <3> TAKE col \in Elements
    <3> DEFINE y == [row \in Elements |-> m[row][col]]
    <3>1. y[1] = m[1][col] /\ y[2] = m[2][col] /\ y[3] = m[3][col]
        BY StateIs
    <3>2. m[1][col] \in Field /\ m[2][col] \in Field /\ m[3][col] \in Field
        BY <1>2, StateIs
    <3>3. Dot(v, y) = e(col)
        BY TablesAssumption
    <3> HIDE DEF y, m, v
    <3>4. Cong(Dot(v, y), (v[1] * y[1] + v[2] * y[2]) + v[3] * y[3])
        BY <2>1, <3>1, <3>2, DotIs
    <3>5. Cong(Dot(v, y), C(col))
        BY <3>1, <3>4
    <3>6. C(col) \in Int
      <4>1. /\ m[1][col] \in Int /\ m[2][col] \in Int /\ m[3][col] \in Int
            /\ v[1] \in Int /\ v[2] \in Int /\ v[3] \in Int
          BY <2>1, <3>2, Modulus
      <4> QED BY <4>1, SMT
    <3> QED BY <3>3, <3>5, <3>6, CongChain
  <2> DEFINE lhs == (L(1) * v[1] + L(2) * v[2]) + L(3) * v[3]
             mid == (C(1) * t[1] + C(2) * t[2]) + C(3) * t[3]
             rhs == (e(1) * t[1] + e(2) * t[2]) + e(3) * t[3]
  <2>3. /\ v[1] \in Int /\ v[2] \in Int /\ v[3] \in Int /\ t[1] \in Int /\ t[2] \in Int /\ t[3] \in Int
        /\ m[1][1] \in Int /\ m[1][2] \in Int /\ m[1][3] \in Int
        /\ m[2][1] \in Int /\ m[2][2] \in Int /\ m[2][3] \in Int
        /\ m[3][1] \in Int /\ m[3][2] \in Int /\ m[3][3] \in Int
      BY <1>1, <1>2, <2>1, StateIs, Modulus
  <2>4. lhs = mid
    <3> HIDE DEF m, v
    <3> QED BY <2>3, ByColumns
  <2>5. rhs = t[n]
    <3>1. n = 1 \/ n = 2 \/ n = 3
        BY StateIs
    <3> QED BY <2>3, <3>1
  <2> HIDE DEF L, C, m, v, w, e
  <2>6. Cong((w[1] * v[1] + w[2] * v[2]) + w[3] * v[3], lhs)
    <3>1. Cong(w[1], L(1)) /\ Cong(w[2], L(2)) /\ Cong(w[3], L(3))
        BY <1>4, StateIs
    <3>2. /\ w[1] \in Int /\ w[2] \in Int /\ w[3] \in Int
          /\ L(1) \in Int /\ L(2) \in Int /\ L(3) \in Int
        BY <1>6, StateIs
    <3>3. v[1] \in Int /\ v[2] \in Int /\ v[3] \in Int
        BY <2>3
    <3> HIDE DEF lhs
    <3>4. Cong((w[1] * v[1] + w[2] * v[2]) + w[3] * v[3], (L(1) * v[1] + L(2) * v[2]) + L(3) * v[3])
        BY <3>1, <3>2, <3>3, Combination, ZenonT(60)
    <3> QED BY <3>4 DEF lhs
  <2>7. Cong(mid, rhs)
    <3>1. /\ C(1) \in Int /\ C(2) \in Int /\ C(3) \in Int
          /\ Cong(C(1), e(1)) /\ Cong(C(2), e(2)) /\ Cong(C(3), e(3))
        BY <2>2, StateIs
    <3>2. e(1) \in Int /\ e(2) \in Int /\ e(3) \in Int
        BY DEF e
    <3>3. t[1] \in Int /\ t[2] \in Int /\ t[3] \in Int
        BY <2>3
    <3> HIDE DEF mid, rhs
    <3>4. Cong((C(1) * t[1] + C(2) * t[2]) + C(3) * t[3], (e(1) * t[1] + e(2) * t[2]) + e(3) * t[3])
        BY <3>1, <3>2, <3>3, Combination, ZenonT(60)
    <3> QED BY <3>4 DEF mid, rhs
  <2>8. Dot(w, v) \in Field /\ Cong(Dot(w, v), (w[1] * v[1] + w[2] * v[2]) + w[3] * v[3])
    <3>1. w[1] \in Field /\ w[2] \in Field /\ w[3] \in Field
        BY <1>4, StateIs
    <3> QED BY <2>1, <3>1, DotIs
  <2>9. Cong(Dot(w, v), t[n])
      BY <2>4, <2>5, <2>6, <2>7, <2>8, CongChain
  <2>10. t[n] \in Field
      BY StateIs
  <2> QED BY <2>8, <2>9, <2>10, EqualInField DEF v, w, m
<1> QED BY <1>5, <1>7

----------------------------------------------------------------------------
(* Adding an element and taking it away again.                             *)
LEMMA AddBack ==
    ASSUME NEW a \in Field, NEW b \in Field
    PROVE  field_add(a, b) \in Field /\ (field_add(a, b) - b) % FIELD_MODULUS = a
<1>1. a \in Int /\ b \in Int /\ a + b \in Int
    BY Modulus
<1> DEFINE s == field_add(a, b)
<1>2. s \in Field /\ Cong(s, a + b)
    BY <1>1, Residue DEF field_add
<1> HIDE DEF s
<1>3. s \in Int /\ s - b \in Int /\ (a + b) - b = a
    BY <1>1, <1>2, Modulus
<1>4. Cong(b, b)
    BY CongChain
<1>5. Cong(s - b, (a + b) - b)
    BY <1>1, <1>2, <1>3, <1>4, Modulus, SameOperations DEF Cong
<1>6. Cong(s - b, a)
    BY <1>3, <1>5
<1>7. (s - b) % FIELD_MODULUS \in Field /\ Cong((s - b) % FIELD_MODULUS, s - b)
    BY <1>3, Residue
<1>8. Cong((s - b) % FIELD_MODULUS, a)
    BY <1>6, <1>7, CongChain
<1>9. (s - b) % FIELD_MODULUS = a
    BY <1>7, <1>8, EqualInField
<1> QED BY <1>2, <1>9 DEF s

LEMMA KeyBack ==
    ASSUME NEW s \in State, NEW n \in 1 .. FULL_ROUNDS + 1
    PROVE  ark(s, n) \in State /\ UnKey(ark(s, n), n) = s
<1>1. \A j \in Elements : s[j] \in Field /\ round_keys[n][j] \in Field
    BY TablesAre, StateIs
<1>2. \A j \in Elements : field_add(s[j], round_keys[n][j]) \in Field
                          /\ (field_add(s[j], round_keys[n][j]) - round_keys[n][j]) % FIELD_MODULUS = s[j]
    BY <1>1, AddBack
<1>3. ark(s, n) \in State /\ \A j \in Elements : ark(s, n)[j] = field_add(s[j], round_keys[n][j])
    BY <1>2 DEF ark, State
<1>4. s = [j \in Elements |-> s[j]]
    BY DEF State
<1>5. UnKey(ark(s, n), n) = [j \in Elements |-> s[j]]
    BY <1>2, <1>3 DEF UnKey
<1> QED BY <1>3, <1>4, <1>5

(* Fifth powers have one root.                                             *)
LEMMA FifthPower ==
    ASSUME NEW x \in Nat
    PROVE  Power(x)[5] = x * (x * (x * (x * x))) /\ x * (x * (x * (x * x))) = x * x * x * x * x
<1>1. Power(x)[1] = x * Power(x)[0] /\ Power(x)[0] = 1
    BY PowerUnfolds
<1>2. Power(x)[1] = x
    BY <1>1
<1>3. Power(x)[1 + 1] = x * x
    BY <1>2, PowerUnfolds
<1>4. Power(x)[2 + 1] = x * (x * x)
    BY <1>3, PowerUnfolds
<1>5. Power(x)[3 + 1] = x * (x * (x * x))
    BY <1>4, PowerUnfolds
<1>6. Power(x)[4 + 1] = x * (x * (x * (x * x)))
    BY <1>5, PowerUnfolds
<1>7. x * (x * (x * (x * x))) = x * x * x * x * x
    BY SMT
<1> QED BY <1>6, <1>7

LEMMA DifferenceIsZero ==
    ASSUME NEW a \in Int, NEW b \in Int
    PROVE  (a - b) % FIELD_MODULUS = 0 <=> Cong(a, b)
<1>1. Cong(a, b) <=> Zero(a - b)
    BY CongZero
<1>2. 0 % FIELD_MODULUS = 0
    BY Modulus, SameResidue
<1> DEFINE d == a - b
<1>3. Zero(d) <=> d % FIELD_MODULUS = 0
  <2> HIDE DEF d
  <2> QED BY <1>2 DEF Zero, Cong, Same
<1> QED BY <1>1, <1>3

LEMMA RootBack ==
    ASSUME NEW x \in Field
    PROVE  sbox(x) \in Field /\ Root5(sbox(x)) = x
<1> DEFINE f(z) == z * z * z * z * z
           y == sbox(x)
<1>1. \A z \in Field : z \in Nat /\ z \in Int
    BY Modulus DEF Field
<1>2. \A z \in Field : f(z) \in Int
    BY <1>1, SMT
<1>3. y = f(x) % FIELD_MODULUS
    BY <1>1, FifthPower DEF sbox, field_pow
<1> HIDE DEF f, y
<1>4. y \in Field /\ Cong(y, f(x)) /\ y \in Int
    BY <1>2, <1>3, Residue, Modulus
<1>5. \A z \in Field : (f(z) - y) % FIELD_MODULUS = 0 <=> z = x
  <2> TAKE z \in Field
  <2>1. f(z) \in Int /\ f(x) \in Int
      BY <1>2
  <2>2. (f(z) - y) % FIELD_MODULUS = 0 <=> Cong(f(z), y)
      BY <1>4, <2>1, DifferenceIsZero
  <2>3. (f(z) - f(x)) % FIELD_MODULUS = 0 <=> Cong(f(z), f(x))
      BY <2>1, DifferenceIsZero
  <2>4. Cong(f(z), y) <=> Cong(f(z), f(x))
      BY <1>4, CongChain
  <2>5. (f(z) - f(x)) % FIELD_MODULUS = 0 => z = x
      BY FifthPowerAssumption DEF f
  <2> QED BY <2>2, <2>3, <2>4, <2>5, CongChain
<1>6. Root5(y) = CHOOSE z \in Field : (f(z) - y) % FIELD_MODULUS = 0
    BY DEF Root5, f
<1>7. Root5(y) = x
    BY <1>5, <1>6
<1> QED BY <1>4, <1>7 DEF y

----------------------------------------------------------------------------
(* The permutation and the sponge run backwards.                           *)
LEMMA RoundBack ==
    ASSUME NEW s \in State, NEW n \in 1 .. FULL_ROUNDS + 1
    PROVE  Round(s, n) \in State /\ UnRound(Round(s, n), n) = s
<1> DEFINE a == ark(s, n)
           t == [j \in Elements |-> sbox(a[j])]
<1>1. a \in State /\ UnKey(a, n) = s
    BY KeyBack
<1>2. \A j \in Elements : sbox(a[j]) \in Field /\ Root5(sbox(a[j])) = a[j]
    BY <1>1, StateIs, RootBack
<1>3. t \in State /\ \A j \in Elements : t[j] = sbox(a[j])
    BY <1>2 DEF State
<1>4. Round(s, n) = matrix_mul(t, mds_matrix)
    BY DEF Round
<1>5. a = [j \in Elements |-> a[j]]
    BY <1>1 DEF State
<1> HIDE DEF a, t
<1>6. /\ Round(s, n) \in State
      /\ \A j \in Elements : Dot(Round(s, n), mds_inverse[j]) = t[j]
    BY <1>3, <1>4, MatrixBack
<1>7. [j \in Elements |-> Root5(Dot(Round(s, n), mds_inverse[j]))] = [j \in Elements |-> a[j]]
    BY <1>2, <1>3, <1>6
<1> QED BY <1>1, <1>5, <1>6, <1>7 DEF UnRound

LEMMA PermutationBack ==
    ASSUME NEW s \in State
    PROVE  poseidon_permutation(s) \in State /\ UnPermute(poseidon_permutation(s)) = s
<1> DEFINE R == FULL_ROUNDS
           Fwd(v, n) == Round(v, n)
           f == CHOOSE g : g = [n \in 0 .. R |-> IF n = 0 THEN s ELSE Fwd(g[n - 1], n)]
           z == ark(f[R], R + 1)
           Bwd(v, n) == UnRound(v, R + 1 - n)
           h == CHOOSE g : g = [n \in 0 .. R |-> IF n = 0 THEN UnKey(z, R + 1) ELSE Bwd(g[n - 1], n)]
<1>1. R \in Nat /\ 0 \in Nat
    BY TablesAre
<1>2. poseidon_permutation(s) = z
    BY DEF poseidon_permutation
<1>3. UnPermute(z) = h[R]
    BY DEF UnPermute
<1>4. f = [n \in 0 .. R |-> IF n = 0 THEN s ELSE Fwd(f[n - 1], n)]
  <2>1. FiniteNatInductiveDefHypothesis(f, s, Fwd, 0, R)
      BY DEF FiniteNatInductiveDefHypothesis
  <2> HIDE DEF f
  <2>2. FiniteNatInductiveDefConclusion(f, s, Fwd, 0, R)
      BY <1>1, <2>1, FiniteNatInductiveDef
  <2> QED BY <2>2 DEF FiniteNatInductiveDefConclusion
<1>5. h = [n \in 0 .. R |-> IF n = 0 THEN UnKey(z, R + 1) ELSE Bwd(h[n - 1], n)]
  <2> DEFINE c == UnKey(z, R + 1)
  <2>1. FiniteNatInductiveDefHypothesis(h, c, Bwd, 0, R)
      BY DEF FiniteNatInductiveDefHypothesis
  <2> HIDE DEF h, c
  <2>2. FiniteNatInductiveDefConclusion(h, c, Bwd, 0, R)
      BY <1>1, <2>1, FiniteNatInductiveDef
  <2> QED BY <2>2 DEF FiniteNatInductiveDefConclusion, c
<1> HIDE DEF f, h, z, R
<1> DEFINE Types == {n \in Nat : n <= R => f[n] \in State}
<1>6. \A n \in Nat : n + 1 <= R => n + 1 \in 0 .. R /\ n <= R /\ n + 1 # 0 /\ (n + 1) - 1 = n
    BY <1>1
<1>7. Nat \subseteq Types
  <2>1. 0 \in Types
      BY <1>1, <1>4
  <2>2. ASSUME NEW n \in Nat, n \in Types PROVE n + 1 \in Types
    <3> SUFFICES ASSUME n + 1 <= R PROVE f[n + 1] \in State
        OBVIOUS
    <3>1. f[n + 1] = Round(f[n], n + 1)
        BY <1>4, <1>6
    <3>2. f[n] \in State /\ n + 1 \in 1 .. R + 1
        BY <1>1, <1>6, <2>2
    <3> QED BY <3>1, <3>2, RoundBack DEF R
  <2> HIDE DEF Types
  <2> QED BY <2>1, <2>2, InductionBySet
<1>8. \A n \in 0 .. R : f[n] \in State
    BY <1>1, <1>7
<1> HIDE DEF Types
<1>9. z \in State /\ UnKey(z, R + 1) = f[R]
  <2>1. f[R] \in State /\ R + 1 \in 1 .. R + 1
      BY <1>1, <1>8
  <2> QED BY <2>1, KeyBack DEF z, R
<1> DEFINE Undone == {n \in Nat : n <= R => h[n] = f[R - n]}
<1>10. 0 \in Undone
  <2>1. R - 0 = R /\ 0 \in 0 .. R
      BY <1>1
  <2> QED BY <1>5, <1>9, <2>1
<1>11. ASSUME NEW n \in Nat, n \in Undone PROVE n + 1 \in Undone
  <2> SUFFICES ASSUME n + 1 <= R PROVE h[n + 1] = f[R - (n + 1)]
      OBVIOUS
  <2> DEFINE m == R - (n + 1)
  <2>1. m \in Nat /\ m + 1 = R - n /\ R + 1 - (n + 1) = m + 1 /\ m \in 0 .. R /\ m + 1 \in 1 .. R + 1 /\ m + 1 <= R
      BY <1>1
  <2> HIDE DEF m
  <2>2. h[n + 1] = UnRound(h[n], m + 1)
      BY <1>5, <1>6, <2>1
  <2>3. h[n] = f[m + 1]
      BY <1>6, <1>11, <2>1
  <2>4. f[m + 1] = Round(f[m], m + 1)
      BY <1>4, <1>6, <2>1
  <2>5. f[m] \in State
      BY <1>8, <2>1
  <2>6. UnRound(Round(f[m], m + 1), m + 1) = f[m]
      BY <2>1, <2>5, RoundBack DEF R
  <2> QED BY <2>2, <2>3, <2>4, <2>6 DEF m
<1> HIDE DEF Undone
<1>12. Nat \subseteq Undone
    BY <1>10, <1>11, InductionBySet
<1>13. h[R] = f[0] /\ f[0] = s
  <2>1. R - R = 0 /\ R <= R /\ 0 \in 0 .. R
      BY <1>1
  <2> QED BY <1>1, <1>4, <1>12, <2>1 DEF Undone
<1> QED BY <1>2, <1>3, <1>9, <1>13

LEMMA AbsorbBack ==
    ASSUME NEW s \in State, NEW b \in Seq(Field)
    PROVE  Absorb(s, b) \in State /\ UnAbsorb(Absorb(s, b), b) = s
<1> DEFINE t == [j \in Elements |-> IF j <= Len(b) THEN field_add(s[j], b[j]) ELSE s[j]]
<1>1. \A j \in Elements : j <= Len(b) => b[j] \in Field
  <2>1. \A j \in Elements : j \in Nat \ {0}
      BY DEF Elements
  <2> QED BY <2>1, LenProperties, ElementOfSeq
<1>2. \A j \in Elements : s[j] \in Field
    BY StateIs
<1>3. \A j \in Elements : j <= Len(b) => /\ field_add(s[j], b[j]) \in Field
                                         /\ (field_add(s[j], b[j]) - b[j]) % FIELD_MODULUS = s[j]
    BY <1>1, <1>2, AddBack
<1>4. t \in State
    BY <1>2, <1>3 DEF State
<1>5. [j \in Elements |-> IF j <= Len(b) THEN (t[j] - b[j]) % FIELD_MODULUS ELSE t[j]] = [j \in Elements |-> s[j]]
    BY <1>3
<1>6. s = [j \in Elements |-> s[j]]
    BY DEF State
<1>7. Absorb(s, b) = poseidon_permutation(t)
    BY DEF Absorb
<1> HIDE DEF t
<1>8. Absorb(s, b) \in State /\ UnPermute(Absorb(s, b)) = t
    BY <1>4, <1>7, PermutationBack
<1> QED BY <1>5, <1>6, <1>8 DEF UnAbsorb

LEMMA BlockIs ==
    ASSUME NEW input \in Seq(Field)
    PROVE  /\ Blocks(input) \in Nat
           /\ \A b \in 1 .. Blocks(input) : Block(input, b) \in Seq(Field)
<1> DEFINE L == Len(input)
           B == (L + 1) \div 2
           r2 == (L + 1) % 2
<1>1. L \in Nat /\ L + 1 \in Int /\ 2 \in Nat \ {0} /\ L + 1 \in Nat
    BY LenProperties
<1>2. B \in Int /\ r2 \in 0 .. 1 /\ L + 1 = B * 2 + r2
  <2> HIDE DEF L
  <2> QED BY <1>1, SMT
<1>3. B \in Nat
    BY <1>1, QuotientBounds
<1>4. ASSUME NEW b \in 1 .. B PROVE Block(input, b) \in Seq(Field)
  <2> DEFINE n == IF 2 * b <= L THEN 2 * b ELSE L
  <2> HIDE DEF L, B
  <2>1. 2 * b - 1 \in Nat /\ 2 * b - 1 >= 1 /\ 2 * b - 1 <= L
      BY <1>1, <1>2, <1>3
  <2>2. n \in Nat /\ n <= L
      BY <1>1, <2>1
  <2>3. \A j \in (2 * b - 1) .. n : j \in 1 .. L
      BY <1>1, <2>1, <2>2
  <2>4. \A j \in 1 .. L : input[j] \in Field
      BY ElementOfSeq DEF L
  <2>5. Block(input, b) = SubSeq(input, 2 * b - 1, n)
      BY DEF Block, L
  <2>6. 2 * b - 1 \in Int /\ n \in Int
      BY <2>1, <2>2
  <2> HIDE DEF n
  <2>7. \A j \in (2 * b - 1) .. n : input[j] \in Field
      BY <2>3, <2>4
  <2> QED BY <2>5, <2>6, <2>7, SubSeqProperties, Zenon
<1> QED BY <1>3, <1>4 DEF Blocks

LEMMA ChainIs ==
    ASSUME NEW s \in State, NEW input \in Seq(Field)
    PROVE  /\ Chain(s, input)[0] = s
           /\ \A b \in 0 .. Blocks(input) : Chain(s, input)[b] \in State
           /\ \A b \in 1 .. Blocks(input) :
                 Chain(s, input)[b] = Absorb(Chain(s, input)[b - 1], Block(input, b))
           /\ poseidon_update(s, input) = Chain(s, input)[Blocks(input)]
<1> DEFINE B == Blocks(input)
           Def(v, b) == Absorb(v, Block(input, b))
           f == Chain(s, input)
<1>1. B \in Nat /\ 0 \in Nat
    BY BlockIs
<1>2. f = [b \in 0 .. B |-> IF b = 0 THEN s ELSE Def(f[b - 1], b)]
  <2>1. FiniteNatInductiveDefHypothesis(f, s, Def, 0, B)
      BY DEF FiniteNatInductiveDefHypothesis, Chain
  <2> HIDE DEF f
  <2>2. FiniteNatInductiveDefConclusion(f, s, Def, 0, B)
      BY <1>1, <2>1, FiniteNatInductiveDef
  <2> QED BY <2>2 DEF FiniteNatInductiveDefConclusion
<1>3. poseidon_update(s, input) = f[B]
    BY DEF poseidon_update, Chain
<1> HIDE DEF f, B
<1>4. f[0] = s /\ \A b \in 1 .. B : f[b] = Absorb(f[b - 1], Block(input, b))
    BY <1>1, <1>2
<1> DEFINE reached == {b \in Nat : b <= B => f[b] \in State}
<1>5. 0 \in reached
    BY <1>4
<1>6. ASSUME NEW b \in Nat, b \in reached PROVE b + 1 \in reached
  <2> SUFFICES ASSUME b + 1 <= B PROVE f[b + 1] \in State
      OBVIOUS
  <2>1. b + 1 \in 1 .. B /\ (b + 1) - 1 = b /\ b <= B
      BY <1>1
  <2>2. f[b] \in State /\ Block(input, b + 1) \in Seq(Field)
      BY <1>6, <2>1, BlockIs DEF B
  <2>3. f[b + 1] = Absorb(f[b], Block(input, b + 1))
      BY <1>4, <2>1
  <2> QED BY <2>2, <2>3, AbsorbBack
<1>7. Nat \subseteq reached
  <2> HIDE DEF reached
  <2> QED BY <1>5, <1>6, InductionBySet
<1>8. \A b \in 0 .. B : f[b] \in State
    BY <1>1, <1>7
<1> QED BY <1>3, <1>4, <1>8 DEF f, B

(* What SpongeRewinds says of a sponge in the middle of its chain.         *)
LEMMA Rewound ==
    ASSUME NEW s \in State, NEW input \in Seq(Field), NEW next \in 1 .. Blocks(input) + 1
    PROVE  LET t[b \in 0 .. next - 1] ==
                   IF b = 0 THEN Chain(s, input)[next - 1] ELSE UnAbsorb(t[b - 1], Block(input, next - b))
           IN  t[next - 1] = s
<1> DEFINE f == Chain(s, input)
           m == next - 1
           c == f[m]
           Def(v, b) == UnAbsorb(v, Block(input, next - b))
           t == CHOOSE g : g = [b \in 0 .. m |-> IF b = 0 THEN c ELSE Def(g[b - 1], b)]
<1>1. Blocks(input) \in Nat /\ m \in Nat /\ m <= Blocks(input) /\ next = m + 1 /\ 0 \in Nat
    BY BlockIs
<1>2. t = [b \in 0 .. m |-> IF b = 0 THEN c ELSE Def(t[b - 1], b)]
  <2>1. FiniteNatInductiveDefHypothesis(t, c, Def, 0, m)
      BY DEF FiniteNatInductiveDefHypothesis
  <2> HIDE DEF t, c, m
  <2>2. FiniteNatInductiveDefConclusion(t, c, Def, 0, m)
      BY <1>1, <2>1, FiniteNatInductiveDef
  <2> QED BY <2>2 DEF FiniteNatInductiveDefConclusion
<1> SUFFICES t[m] = s
    OBVIOUS
<1> HIDE DEF f, m, t
<1> DEFINE reached == {b \in Nat : b <= m => t[b] = f[m - b]}
<1>3. 0 \in reached
  <2>1. m - 0 = m /\ 0 \in 0 .. m
      BY <1>1
  <2> QED BY <1>2, <2>1
<1>4. ASSUME NEW b \in Nat, b \in reached PROVE b + 1 \in reached
  <2> SUFFICES ASSUME b + 1 <= m PROVE t[b + 1] = f[m - (b + 1)]
      OBVIOUS
  <2> DEFINE n == m - (b + 1)
  <2>1. /\ n \in Nat /\ n \in 0 .. Blocks(input) /\ n + 1 \in 1 .. Blocks(input) /\ (n + 1) - 1 = n
        /\ m - b = n + 1 /\ next - (b + 1) = n + 1 /\ b <= m
        /\ b + 1 \in 0 .. m /\ b + 1 # 0 /\ (b + 1) - 1 = b
      BY <1>1
  <2> HIDE DEF n
  <2>2. t[b + 1] = UnAbsorb(t[b], Block(input, n + 1))
      BY <1>2, <2>1
  <2>3. t[b] = f[n + 1]
      BY <1>4, <2>1
  <2>4. f[n + 1] = Absorb(f[n], Block(input, n + 1)) /\ f[n] \in State
      BY <2>1, ChainIs DEF f
  <2>5. Block(input, n + 1) \in Seq(Field)
      BY <2>1, BlockIs
  <2> QED BY <2>2, <2>3, <2>4, <2>5, AbsorbBack DEF n
<1>5. Nat \subseteq reached
  <2> HIDE DEF reached
  <2> QED BY <1>3, <1>4, InductionBySet
<1>6. t[m] = f[0]
  <2>1. m <= m /\ m - m = 0
      BY <1>1
  <2> QED BY <1>1, <1>5, <2>1
<1> QED BY <1>6, ChainIs DEF f

----------------------------------------------------------------------------
(* A compressed key is one point's.                                        *)
LEMMA Parity ==
    /\ FIELD_MODULUS % 2 = 1
    /\ \A y \in Field \ {0} : /\ (-y) % FIELD_MODULUS = FIELD_MODULUS - y
                              /\ field_is_odd(FIELD_MODULUS - y) <=> ~field_is_odd(y)
<1>1. 2 \in 2 .. FIELD_MODULUS - 1 /\ FIELD_MODULUS \in Nat
    BY Modulus
<1>2. FIELD_MODULUS % 2 # 0
    BY <1>1, Modulus DEF IsPrime
<1>3. FIELD_MODULUS % 2 = 1
    BY <1>1, <1>2
<1>4. ASSUME NEW y \in Field \ {0} PROVE (-y) % FIELD_MODULUS = FIELD_MODULUS - y
  <2>1. y \in Int /\ FIELD_MODULUS - y \in 0 .. FIELD_MODULUS - 1 /\ FIELD_MODULUS \in Nat \ {0}
        /\ FIELD_MODULUS - y = (0 - y) + 1 * FIELD_MODULUS /\ 0 - y \in Int /\ 1 \in Int
      BY Modulus DEF Field
  <2>2. Same(FIELD_MODULUS, FIELD_MODULUS - y, 0 - y)
      BY <2>1, SameShift
  <2>3. (FIELD_MODULUS - y) % FIELD_MODULUS = FIELD_MODULUS - y
      BY <2>1, SameResidue
  <2>4. -y = 0 - y
      BY <2>1, Negative
  <2> QED BY <2>2, <2>3, <2>4 DEF Same
<1>5. ASSUME NEW y \in Field \ {0} PROVE field_is_odd(FIELD_MODULUS - y) <=> ~field_is_odd(y)
  <2>1. y \in Int
      BY Modulus
  <2> QED BY <1>1, <1>3, <2>1, SMT DEF field_is_odd
<1> QED BY <1>3, <1>4, <1>5

LEMMA SameCompressed ==
    ASSUME NEW p \in Points, NEW q \in Points, compress(p) = compress(q)
    PROVE  p = q
<1>1. p.x = q.x /\ (field_is_odd(p.y) <=> field_is_odd(q.y))
    BY DEF compress, field_is_odd
<1>2. /\ p.x \in Field /\ p.y \in Field /\ p = [x |-> p.x, y |-> p.y]
      /\ q.x \in Field /\ q.y \in Field /\ q = [x |-> q.x, y |-> q.y]
    BY PointsAre
<1>3. ASSUME NEW u \in Points \ {Infinity} PROVE u.x # 0
  <2> SUFFICES ASSUME u.x = 0 PROVE FALSE
      OBVIOUS
  <2>1. u.y \in Field /\ (u.y * u.y) % FIELD_MODULUS = (0 * 0 * 0 + GROUP_COEFF_B) % FIELD_MODULUS
      BY DEF Points, OnCurve
  <2>2. GROUP_COEFF_B \in Field /\ GROUP_COEFF_B \in Int
      BY CurveAssumption, Modulus
  <2>3. 0 * 0 * 0 + GROUP_COEFF_B = GROUP_COEFF_B
      BY <2>2
  <2>4. GROUP_COEFF_B % FIELD_MODULUS = GROUP_COEFF_B
      BY <2>2, Modulus, SameResidue DEF Field
  <2> QED BY <2>1, <2>3, <2>4, CoeffAssumption
<1>4. CASE p = Infinity \/ q = Infinity
  <2>1. p.x = 0
      BY <1>1, <1>4 DEF Infinity
  <2> QED BY <1>1, <1>3, <2>1
<1>5. CASE p # Infinity /\ q # Infinity
  <2> DEFINE w == p.x * p.x * p.x + GROUP_COEFF_B
             u == p.y
             v == q.y
  <2>1. Cong(u * u, w) /\ Cong(v * v, w)
      BY <1>1, <1>5 DEF Points, OnCurve, Cong, Same
  <2>2. u \in Int /\ v \in Int
      BY <1>2, Modulus
  <2> HIDE DEF u, v, w
  <2>3. u * u \in Int /\ v * v \in Int /\ u - v \in Int /\ u + v \in Int /\ u * u - v * v = (u - v) * (u + v)
      BY <2>2, SMT
  <2>4. Zero((u - v) * (u + v))
    <3>1. Cong(u * u, v * v)
        BY <2>1, CongChain
    <3> QED BY <2>3, <3>1, CongZero
  <2>5. Zero(u - v) \/ Zero(u + v)
      BY <2>3, <2>4, NoZeroDivisors
  <2>6. CASE Zero(u - v)
    <3>1. Cong(u, v)
        BY <2>2, <2>6, CongZero
    <3> QED BY <1>1, <1>2, <3>1, EqualInField DEF u, v
  <2>7. CASE Zero(u + v)
    <3>1. FIELD_MODULUS \in Nat \ {0} /\ u \in 0 .. FIELD_MODULUS - 1 /\ v \in 0 .. FIELD_MODULUS - 1
        BY <1>2, Modulus DEF u, v, Field
    <3>2. PICK n \in Int : u + v = 0 + n * FIELD_MODULUS
      <4> DEFINE w2 == u + v
      <4>1. w2 \in Int /\ Same(FIELD_MODULUS, w2, 0)
          BY <2>3, <2>7 DEF Zero, Cong
      <4> HIDE DEF w2
      <4>2. \E n \in Int : w2 = 0 + n * FIELD_MODULUS
          BY <3>1, <4>1, SameMultiple
      <4> QED BY <4>2 DEF w2
    <3>3. CASE u = 0
      <4>1. Zero(v)
          BY <2>2, <2>7, <3>3
      <4>2. v = 0
          BY <1>2, <4>1, Modulus, EqualInField DEF Zero, v
      <4> QED BY <1>1, <1>2, <3>3, <4>2 DEF u, v
    <3>4. CASE u # 0
      <4>1. (-u) % FIELD_MODULUS = FIELD_MODULUS - u /\ (field_is_odd(FIELD_MODULUS - u) <=> ~field_is_odd(u))
          BY <1>2, <3>4, Parity DEF u
      <4>2. v = FIELD_MODULUS - u
        <5>1. FIELD_MODULUS - u \in 0 .. FIELD_MODULUS - 1 /\ v - (FIELD_MODULUS - u) = (u + v) - FIELD_MODULUS
            BY <3>1, <3>4
        <5>2. Same(FIELD_MODULUS, FIELD_MODULUS - u, v)
          <6>1. FIELD_MODULUS - u = v + (1 - n) * FIELD_MODULUS
              BY <3>1, <3>2, SMT
          <6>2. 1 - n \in Int /\ v \in Int
              BY <2>2
          <6> QED BY <3>1, <6>1, <6>2, SameShift
        <5> QED BY <3>1, <5>1, <5>2, SameSmall
      <4> QED BY <1>1, <4>1, <4>2 DEF u, v
    <3> QED BY <3>3, <3>4
  <2> QED BY <2>5, <2>6, <2>7
<1> QED BY <1>4, <1>5

LEMMA DecompressIs ==
    ASSUME NEW p \in Points
    PROVE  Decompress(compress(p)) = p
<1>1. \A q \in Points : compress(q) = compress(p) <=> q = p
    BY SameCompressed
<1> QED BY <1>1 DEF Decompress

----------------------------------------------------------------------------
(* Scalars stay below the order.                                           *)
LEMMA FromBytes ==
    ASSUME NEW bytes \in Bytes
    PROVE  scalar_from_bytes(bytes) \in Scalar
<1> DEFINE w == Power(2)[SCALAR_BITS - 2]
<1>1. SCALAR_BITS - 2 \in Nat /\ 2 \in Nat \ {0}
    BY WidthAssumption
<1>2. w \in Nat \ {0} /\ w < GROUP_ORDER /\ bytes \in Int
    BY <1>1, PowerPositive, WidthAssumption DEF Bytes
<1> HIDE DEF w
<1>3. bytes % w \in 0 .. w - 1
    BY <1>2, SameResidue
<1>4. bytes % w \in Scalar
  <2>1. GROUP_ORDER \in Nat /\ Scalar = 0 .. GROUP_ORDER - 1
      BY Order
  <2> DEFINE v == bytes % w
  <2>2. v \in 0 .. w - 1
      BY <1>3
  <2> HIDE DEF v
  <2>3. v \in Scalar
      BY <1>2, <2>1, <2>2
  <2> QED BY <2>3 DEF v
<1> QED BY <1>4 DEF scalar_from_bytes, w

LEMMA NegateScalar ==
    ASSUME NEW s \in Scalar
    PROVE  scalar_negate(s) \in Scalar /\ Same(GROUP_ORDER, scalar_negate(s), 0 - s)
<1>1. s \in Int /\ 0 - s \in Int
    BY Order
<1>2. -s = 0 - s
    BY <1>1, Negative
<1> QED BY <1>1, <1>2, Order DEF scalar_negate

LEMMA ZeroScalar == 0 \in Scalar
BY Order

LEMMA ScalarsInductive ==
    /\ Init => ScalarsInRange
    /\ ScalarsInRange /\ [Next]_vars => ScalarsInRange'
<1>1. Init => ScalarsInRange
    BY ZeroScalar DEF Init, ScalarsInRange
<1>2. ScalarsInRange /\ [Next]_vars => ScalarsInRange'
  <2> SUFFICES ASSUME ScalarsInRange, [Next]_vars PROVE ScalarsInRange'
      OBVIOUS
  <2>1. CASE generate_keypair
      BY <2>1, FromBytes DEF generate_keypair, ScalarsInRange
  <2>2. CASE message_derive
      BY <2>2, FromBytes DEF message_derive, ScalarsInRange
  <2>3. CASE TakePoint
      BY <2>3, NegateScalar DEF TakePoint, Nonce, ScalarsInRange
  <2>4. CASE CheckAddress \/ Finish \/ Throw
      BY <2>4, ZeroScalar DEF CheckAddress, Finish, Throw, ScalarsInRange
  <2>5. CASE MultiplyBit \/ message_hash \/ UNCHANGED vars
      BY <2>5 DEF MultiplyBit, message_hash, vars, ScalarsInRange
  <2> QED BY <2>1, <2>2, <2>3, <2>4, <2>5 DEF Next
<1> QED BY <1>1, <1>2

(* A private key and a nonce are below the order of the group whenever     *)
(* they are used, although nothing compares them with it (the comment at   *)
(* scalar_from_bytes): for every curve with an order between those powers  *)
(* of two, every seed, and a signature that fails anywhere.                *)
THEOREM ScalarsStay == Spec => []ScalarsInRange
BY ScalarsInductive, PTL DEF Spec

----------------------------------------------------------------------------
(* The equation of the signature.                                          *)
LEMMA OppositeOf ==
    ASSUME NEW p \in Points \ {Infinity}, field_is_odd(p.y)
    PROVE  Opposite(p) # Infinity /\ Opposite(p).y % 2 = 0 /\ Opposite(p).x = p.x
<1>1. p.y \in Field /\ p = [x |-> p.x, y |-> p.y]
    BY PointsAre
<1>2. p.y # 0
    BY DEF field_is_odd
<1>3. (-p.y) % FIELD_MODULUS = FIELD_MODULUS - p.y /\ ~field_is_odd(FIELD_MODULUS - p.y)
    BY <1>1, <1>2, Parity
<1>4. Opposite(p).x = p.x /\ Opposite(p).y = FIELD_MODULUS - p.y
    BY <1>1, <1>3 DEF Opposite
<1>5. FIELD_MODULUS - p.y # 0 /\ FIELD_MODULUS - p.y \in Int
    BY <1>1, Modulus DEF Field
<1>6. (FIELD_MODULUS - p.y) % 2 = 0
    BY <1>3, <1>5, SMT DEF field_is_odd
<1> QED BY <1>4, <1>5, <1>6 DEF Infinity

LEMMA Equation ==
    ASSUME NEW n \in Scalar, NEW d \in Scalar, NEW e \in Field,
           NEW p \in Points \ {Infinity},
           Times(n, AFFINE_ONE) = (IF field_is_odd(p.y) THEN Opposite(p) ELSE p)
    PROVE  LET s == scalar_add(n, scalar_mul(e, d))
               R == PointSum(Times(s, AFFINE_ONE), Opposite(Times(e, Times(d, AFFINE_ONE))))
           IN  R # Infinity /\ R.y % 2 = 0 /\ R.x = p.x
<1> DEFINE base == AFFINE_ONE
           m == scalar_mul(e, d)
           s == scalar_add(n, m)
           w == e * d
           R == PointSum(Times(s, base), Opposite(Times(e, Times(d, base))))
<1>1. n \in Int /\ d \in Int /\ e \in Int /\ w \in Int /\ base \in Points
    BY Order, Modulus, PointsAre
<1>2. m \in Scalar /\ Same(GROUP_ORDER, m, w)
    BY <1>1, Order DEF scalar_mul
<1>3. Times(e, Times(d, base)) = Times(w, base)
    BY <1>1, Products
<1> HIDE DEF m, w
<1>4. n + m \in Int /\ m \in Int /\ n + w \in Int /\ 0 - w \in Int
    BY <1>1, <1>2, Order
<1>5. s \in Int /\ Same(GROUP_ORDER, s, n + m)
  <2> DEFINE z == n + m
  <2>1. z \in Int
      BY <1>4
  <2>2. s = z % GROUP_ORDER
      BY DEF scalar_add, m
  <2> HIDE DEF z, s
  <2>3. s \in Scalar /\ Same(GROUP_ORDER, s, z)
      BY <2>1, <2>2, Order
  <2> QED BY <2>3, Order DEF z
<1> HIDE DEF s
<1>6. Opposite(Times(w, base)) = Times(0 - w, base)
  <2>1. Times(-w, base) = Opposite(Times(w, base)) /\ -w = 0 - w
      BY <1>1, TimesNegative, Negative
  <2> QED BY <2>1
<1>7. R = Times(s + (0 - w), base)
  <2>1. Times(s + (0 - w), base) = PointSum(Times(s, base), Times(0 - w, base))
      BY <1>1, <1>4, <1>5, Sums
  <2> QED BY <1>3, <1>6, <2>1
<1>8. Same(GROUP_ORDER, s + (0 - w), n)
  <2>1. GROUP_ORDER \in Nat \ {0}
      BY Order
  <2>2. Same(GROUP_ORDER, n, n) /\ Same(GROUP_ORDER, 0 - w, 0 - w)
      BY SameReflexive
  <2>3. Same(GROUP_ORDER, n + m, n + w)
      BY <1>1, <1>2, <1>4, <2>1, <2>2, SameOperations
  <2>4. Same(GROUP_ORDER, s, n + w)
      BY <1>5, <2>3 DEF Same
  <2>5. Same(GROUP_ORDER, s + (0 - w), (n + w) + (0 - w))
      BY <1>1, <1>4, <1>5, <2>1, <2>2, <2>4, SameOperations
  <2>6. (n + w) + (0 - w) = n
      BY <1>1
  <2> QED BY <2>5, <2>6
<1>9. R = Times(n, base)
    BY <1>7, <1>8, TimesSame
<1> HIDE DEF R
<1>10. R # Infinity /\ R.y % 2 = 0 /\ R.x = p.x
  <2>1. CASE field_is_odd(p.y)
      BY <1>9, <2>1, OppositeOf
  <2>2. CASE ~field_is_odd(p.y)
    <3>1. p.y % 2 = 0
      <4>1. p.y \in Int
          BY PointsAre, Modulus
      <4> QED BY <2>2, <4>1, SMT DEF field_is_odd
    <3> QED BY <1>9, <2>2, <3>1
  <2> QED BY <2>1, <2>2
<1> QED BY <1>10 DEF R, s, m

----------------------------------------------------------------------------
(* What the actions compute, in terms of the invariant.                    *)
LEMMA GeneratorIs ==
    /\ AFFINE_ONE \in Points \ {Infinity}
    /\ \A n \in Scalar : Times(n, AFFINE_ONE) \in Points /\ n \in Int
BY CurveAssumption, TimesIsPoint, Order

LEMMA StartIs ==
    ASSUME NEW s \in Scalar, NEW j, j = IF s = 0 THEN SCALAR_BITS ELSE 0
    PROVE  j \in 0 .. SCALAR_BITS /\ Represents(GROUP_ZERO, Times(Prefix(s, j), AFFINE_ONE))
<1>1. SCALAR_BITS \in Nat
    BY WidthAssumption
<1>2. Prefix(s, j) = 0
    BY PrefixIs
<1>3. Times(0, AFFINE_ONE) = Infinity
    BY GeneratorIs, TimesStep
<1> QED BY <1>1, <1>2, <1>3, GroupIs

LEMMA EndIs ==
    ASSUME NEW s \in Scalar, NEW q, Represents(q, Times(Prefix(s, SCALAR_BITS), AFFINE_ONE))
    PROVE  affine_from_group(q) = Times(s, AFFINE_ONE)
BY PrefixIs, AffineOfForm

LEMMA NonceIs ==
    ASSUME NEW s \in Scalar
    PROVE  Times(scalar_negate(s), AFFINE_ONE) = Opposite(Times(s, AFFINE_ONE))
<1>1. s \in Int /\ AFFINE_ONE \in Points
    BY GeneratorIs
<1>2. Times(-s, AFFINE_ONE) = Opposite(Times(s, AFFINE_ONE)) /\ -s = 0 - s
    BY <1>1, TimesNegative, Negative
<1>3. Times(scalar_negate(s), AFFINE_ONE) = Times(0 - s, AFFINE_ONE)
    BY NegateScalar, TimesSame
<1> QED BY <1>2, <1>3

LEMMA MessageIs ==
    ASSUME NEW tx \in Transactions, NEW key \in Points, NEW x \in Field
    PROVE  HashMessage(tx, key, x) \in Seq(Field)
<1>1. tx.before \in Seq(Field) /\ tx.after \in Seq(Field)
    BY TransactionsAssumption
<1>2. <<key.x, key.y, x>> \in Seq(Field)
    BY PointsAre
<1>3. tx.before \o <<key.x, key.y, x>> \in Seq(Field)
    BY <1>1, <1>2, ConcatProperties
<1> QED BY <1>1, <1>3, ConcatProperties DEF HashMessage

(* The key and the message while the challenge is hashed.                  *)
LEMMA WhileHashing ==
    ASSUME SignatureInv, pc = "hash"
    PROVE  /\ pub \in Points /\ pub = Times(priv, AFFINE_ONE) /\ Decompress(from) = pub
           /\ priv \in Scalar /\ k \in Scalar
           /\ r \in Points /\ r.x \in Field /\ sig.rx = r.x
           /\ hash_msg \in Seq(Field) /\ Blocks(hash_msg) \in Nat
           /\ block \in 1 .. Blocks(hash_msg) + 1
           /\ pos = Chain(IV, hash_msg)[block - 1]
<1>1. priv \in Scalar /\ k \in Scalar /\ transaction \in Transactions
    BY DEF SignatureInv, ScalarsInRange, Parameters
<1>2. pub = Times(priv, AFFINE_ONE) /\ compress(pub) = from
    BY DEF SignatureInv, KeyPair
<1>3. r \in Points /\ r.x \in Field /\ sig.rx = r.x
    BY PointsAre DEF SignatureInv, NoncePoint
<1>4. pub \in Points
    BY <1>1, <1>2, GeneratorIs
<1>5. hash_msg \in Seq(Field)
    BY <1>1, <1>3, <1>4, MessageIs DEF hash_msg
<1> QED BY <1>1, <1>2, <1>3, <1>4, <1>5, BlockIs, DecompressIs DEF SignatureInv, Sponge

----------------------------------------------------------------------------
LEMMA Starts == Init => SignatureInv
<1> SUFFICES ASSUME Init PROVE SignatureInv
    OBVIOUS
<1>1. pc = "seed"
    BY DEF Init
<1>2. Parameters
    BY WidthAssumption DEF Init, Parameters, NoSig
<1>3. ScalarsInRange
    BY ScalarsInductive
<1> QED BY <1>1, <1>2, <1>3
        DEF SignatureInv, Multiplying, KeyPair, NoncePoint, Sponge, SignatureVerifies

LEMMA KeypairStep ==
    ASSUME SignatureInv, generate_keypair, ScalarsInRange'
    PROVE  SignatureInv'
<1>1. pc' = "pub" /\ priv' \in Scalar /\ acc' = GROUP_ZERO /\ i' = IF priv' = 0 THEN SCALAR_BITS ELSE 0
    BY DEF generate_keypair, StartMul, ScalarsInRange
<1>2. i' \in 0 .. SCALAR_BITS /\ Represents(GROUP_ZERO, Times(Prefix(priv', i'), AFFINE_ONE))
    BY <1>1, StartIs
<1>3. Multiplying'
    BY <1>1, <1>2 DEF Multiplying
<1>4. Parameters'
    BY <1>2 DEF generate_keypair, SignatureInv, Parameters
<1> QED BY <1>1, <1>3, <1>4 DEF SignatureInv, KeyPair, NoncePoint, Sponge, SignatureVerifies

LEMMA MultiplyStep ==
    ASSUME SignatureInv, MultiplyBit, ScalarsInRange'
    PROVE  SignatureInv'
<1> DEFINE s == IF pc = "pub" THEN priv ELSE k
<1>1. s \in Scalar /\ i \in 0 .. SCALAR_BITS - 1 /\ i + 1 \in 0 .. SCALAR_BITS
    BY WidthAssumption DEF SignatureInv, ScalarsInRange, Parameters, MultiplyBit
<1>2. Represents(acc, Times(Prefix(s, i), AFFINE_ONE))
    BY DEF SignatureInv, Multiplying, MultiplyBit
<1>3. pc' = pc /\ s' = s /\ i' = i + 1 /\ acc' = ScalarMulStep(acc, s, i, affine_to_group(AFFINE_ONE))
    BY DEF MultiplyBit
<1>4. Represents(ScalarMulStep(acc, s, i, affine_to_group(AFFINE_ONE)), Times(Prefix(s, i + 1), AFFINE_ONE))
  <2> HIDE DEF s
  <2> QED BY <1>1, <1>2, GeneratorIs, LoopStep
<1>5. Multiplying'
    BY <1>3, <1>4 DEF Multiplying
<1>6. Parameters'
    BY <1>1, <1>3 DEF MultiplyBit, SignatureInv, Parameters
<1>7. KeyPair'
    BY DEF MultiplyBit, SignatureInv, KeyPair
<1> QED BY <1>5, <1>6, <1>7 DEF MultiplyBit, SignatureInv, NoncePoint, Sponge, SignatureVerifies

LEMMA AddressStep ==
    ASSUME SignatureInv, CheckAddress, ScalarsInRange'
    PROVE  SignatureInv'
<1>1. Parameters'
    BY DEF CheckAddress, SignatureInv, Parameters
<1>2. affine_from_group(acc) = Times(priv, AFFINE_ONE)
  <2>1. priv \in Scalar /\ Represents(acc, Times(Prefix(priv, SCALAR_BITS), AFFINE_ONE))
      BY DEF CheckAddress, SignatureInv, ScalarsInRange, Multiplying
  <2> QED BY <2>1, EndIs
<1>3. KeyPair'
    BY <1>2 DEF CheckAddress, KeyPair
<1>4. pc' \in {"derive", "error"}
    BY DEF CheckAddress
<1> QED BY <1>1, <1>3, <1>4 DEF SignatureInv, Multiplying, NoncePoint, Sponge, SignatureVerifies

LEMMA DeriveStep ==
    ASSUME SignatureInv, message_derive, ScalarsInRange'
    PROVE  SignatureInv'
<1>1. pc' = "point" /\ k' \in Scalar /\ acc' = GROUP_ZERO /\ i' = IF k' = 0 THEN SCALAR_BITS ELSE 0
    BY DEF message_derive, StartMul, ScalarsInRange
<1>2. i' \in 0 .. SCALAR_BITS /\ Represents(GROUP_ZERO, Times(Prefix(k', i'), AFFINE_ONE))
    BY <1>1, StartIs
<1>3. Multiplying'
    BY <1>1, <1>2 DEF Multiplying
<1>4. Parameters'
    BY <1>2 DEF message_derive, SignatureInv, Parameters
<1>5. KeyPair'
    BY DEF message_derive, SignatureInv, KeyPair
<1> QED BY <1>1, <1>3, <1>4, <1>5 DEF SignatureInv, NoncePoint, Sponge, SignatureVerifies

LEMMA PointStep ==
    ASSUME SignatureInv, TakePoint, ScalarsInRange'
    PROVE  SignatureInv'
<1>1. pc' = "hash" /\ k \in Scalar /\ priv \in Scalar /\ transaction \in Transactions
    BY DEF TakePoint, SignatureInv, ScalarsInRange, Parameters
<1>2. r' = Times(k, AFFINE_ONE)
  <2>1. Represents(acc, Times(Prefix(k, SCALAR_BITS), AFFINE_ONE))
      BY DEF TakePoint, SignatureInv, Multiplying
  <2> QED BY <1>1, <2>1, EndIs DEF TakePoint
<1>3. r' \in Points /\ r'.x \in Field
    BY <1>1, <1>2, GeneratorIs, PointsAre
<1>4. Parameters' /\ sig'.rx = r'.x
  <2>1. DOMAIN sig = {"rx", "s"}
      BY DEF SignatureInv, Parameters
  <2>2. sig' = [sig EXCEPT !.rx = r'.x]
      BY DEF TakePoint
  <2>3. DOMAIN sig' = {"rx", "s"} /\ sig'.rx = r'.x
      BY <2>1, <2>2
  <2> QED BY <2>3 DEF TakePoint, SignatureInv, Parameters
<1>5. Times(k', AFFINE_ONE) = IF field_is_odd(r'.y) THEN Opposite(r') ELSE r'
  <2>1. k' = IF field_is_odd(r'.y) THEN scalar_negate(k) ELSE k
      BY DEF TakePoint, Nonce
  <2> QED BY <1>1, <1>2, <2>1, NonceIs
<1>6. NoncePoint'
    BY <1>3, <1>4, <1>5 DEF NoncePoint
<1>7. KeyPair' /\ pub' = pub /\ pub = Times(priv, AFFINE_ONE)
    BY DEF TakePoint, SignatureInv, KeyPair
<1>8. Sponge'
  <2>1. pub \in Points
      BY <1>1, <1>7, GeneratorIs
  <2>2. hash_msg' = HashMessage(transaction, pub, r'.x)
      BY DEF TakePoint, hash_msg
  <2>3. hash_msg' \in Seq(Field)
      BY <1>1, <1>3, <2>1, <2>2, MessageIs
  <2>4. Blocks(hash_msg') \in Nat
      BY <2>3, BlockIs
  <2>5. block' = 1 /\ block' \in 1 .. Blocks(hash_msg') + 1 /\ block' - 1 = 0
      BY <2>4 DEF TakePoint
  <2>6. pos' = IV /\ IV' = IV
      BY DEF TakePoint, SignatureInv, Parameters, poseidon_init, IV, TESTNET_ID, MAINNET_ID
  <2>7. Chain(IV, hash_msg')[0] = IV
      BY <2>3, TablesAre, ChainIs
  <2> QED BY <2>5, <2>6, <2>7 DEF Sponge
<1> QED BY <1>1, <1>4, <1>6, <1>7, <1>8 DEF SignatureInv, Multiplying, SignatureVerifies

LEMMA HashStep ==
    ASSUME SignatureInv, message_hash, ScalarsInRange'
    PROVE  SignatureInv'
<1>1. pc = "hash" /\ pc' = "hash" /\ block <= Blocks(hash_msg)
    BY DEF message_hash
<1>2. /\ hash_msg \in Seq(Field) /\ Blocks(hash_msg) \in Nat
      /\ block \in 1 .. Blocks(hash_msg) + 1 /\ pos = Chain(IV, hash_msg)[block - 1]
    BY <1>1, WhileHashing
<1>3. block \in 1 .. Blocks(hash_msg) /\ block + 1 \in 1 .. Blocks(hash_msg) + 1 /\ (block + 1) - 1 = block
    BY <1>1, <1>2
<1>4. Chain(IV, hash_msg)[block] = Absorb(pos, Block(hash_msg, block))
    BY <1>2, <1>3, TablesAre, ChainIs
<1>5. hash_msg' = hash_msg /\ IV' = IV
    BY DEF message_hash, hash_msg, IV
<1>6. block' = block + 1 /\ pos' = Absorb(pos, Block(hash_msg, block))
    BY DEF message_hash
<1>7. Sponge'
    BY <1>3, <1>4, <1>5, <1>6 DEF Sponge
<1>8. Parameters' /\ KeyPair' /\ NoncePoint'
    BY DEF message_hash, SignatureInv, Parameters, KeyPair, NoncePoint
<1> QED BY <1>1, <1>7, <1>8 DEF SignatureInv, Multiplying, SignatureVerifies

LEMMA FinishStep ==
    ASSUME SignatureInv, Finish, ScalarsInRange'
    PROVE  SignatureInv'
<1>1. pc = "hash" /\ pc' = "signed" /\ block > Blocks(hash_msg)
    BY DEF Finish
<1>2. /\ pub = Times(priv, AFFINE_ONE) /\ Decompress(from) = pub
      /\ priv \in Scalar /\ k \in Scalar /\ r \in Points /\ sig.rx = r.x
      /\ hash_msg \in Seq(Field) /\ Blocks(hash_msg) \in Nat
      /\ block \in 1 .. Blocks(hash_msg) + 1
      /\ pos = Chain(IV, hash_msg)[block - 1]
    BY <1>1, WhileHashing
<1> DEFINE B == Blocks(hash_msg)
           e == poseidon_digest(pos)
<1>3. block - 1 = B
    BY <1>1, <1>2
<1>4. pos = poseidon_update(IV, hash_msg) /\ e \in Field
  <2>1. B \in 0 .. B
      BY <1>2
  <2>2. pos = Chain(IV, hash_msg)[B] /\ Chain(IV, hash_msg)[B] \in State
      BY <1>2, <1>3, <2>1, TablesAre, ChainIs
  <2>3. poseidon_update(IV, hash_msg) = Chain(IV, hash_msg)[B]
      BY <1>2, TablesAre, ChainIs
  <2> QED BY <2>2, <2>3, StateIs DEF poseidon_digest
<1>5. sig'.rx = r.x /\ sig'.s = scalar_add(k, scalar_mul(e, priv)) /\ Parameters'
  <2>1. DOMAIN sig = {"rx", "s"}
      BY DEF SignatureInv, Parameters
  <2>2. sig' = [sig EXCEPT !.s = scalar_add(k, scalar_mul(e, priv))]
      BY DEF Finish
  <2>3. DOMAIN sig' = {"rx", "s"} /\ sig'.rx = sig.rx /\ sig'.s = scalar_add(k, scalar_mul(e, priv))
      BY <2>1, <2>2
  <2> QED BY <1>2, <2>3 DEF Finish, SignatureInv, Parameters
<1>6. UNCHANGED <<network_id, transaction, from, r>> /\ IV' = IV
    BY DEF Finish, IV
<1>7. poseidon_digest(poseidon_update(IV', HashMessage(transaction', Decompress(from'), sig'.rx))) = e
    BY <1>2, <1>4, <1>5, <1>6 DEF hash_msg
<1>8. ASSUME r # Infinity PROVE Verifies'
  <2> DEFINE R == PointSum(Times(sig'.s, AFFINE_ONE), Opposite(Times(e, pub)))
  <2>1. Times(k, AFFINE_ONE) = IF field_is_odd(r.y) THEN Opposite(r) ELSE r
      BY <1>1 DEF SignatureInv, NoncePoint
  <2>2. R # Infinity /\ R.y % 2 = 0 /\ R.x = r.x
    <3> HIDE DEF e
    <3> QED BY <1>2, <1>4, <1>5, <1>8, <2>1, Equation
  <2>3. R.x = sig'.rx
      BY <1>5, <2>2
  <2>4. Decompress(from') = pub
      BY <1>2, <1>6
  <2> HIDE DEF e
  <2> QED BY <1>7, <2>2, <2>3, <2>4 DEF Verifies
<1>9. SignatureVerifies'
    BY <1>6, <1>8 DEF SignatureVerifies
<1> QED BY <1>1, <1>5, <1>9 DEF SignatureInv, Multiplying, KeyPair, NoncePoint, Sponge

LEMMA ThrowStep ==
    ASSUME SignatureInv, Throw, ScalarsInRange'
    PROVE  SignatureInv'
<1>1. pc' = "error"
    BY DEF Throw
<1>2. Parameters'
    BY DEF Throw, SignatureInv, Parameters
<1> QED BY <1>1, <1>2 DEF SignatureInv, Multiplying, KeyPair, NoncePoint, Sponge, SignatureVerifies

LEMMA Inductive == SignatureInv /\ [Next]_vars => SignatureInv'
<1> SUFFICES ASSUME SignatureInv, [Next]_vars PROVE SignatureInv'
    OBVIOUS
<1>1. ScalarsInRange'
    BY ScalarsInductive DEF SignatureInv
<1>2. CASE UNCHANGED vars
  <2>1. Parameters' /\ Multiplying' /\ KeyPair' /\ NoncePoint'
      BY <1>2 DEF vars, SignatureInv, Parameters, Multiplying, KeyPair, NoncePoint
  <2>2. IV' = IV /\ hash_msg' = hash_msg
      BY <1>2 DEF vars, IV, hash_msg
  <2>3. Sponge'
      BY <1>2, <2>2 DEF vars, SignatureInv, Sponge
  <2>4. Verifies' <=> Verifies
      BY <1>2, <2>2 DEF vars, Verifies
  <2>5. SignatureVerifies'
      BY <1>2, <2>4 DEF vars, SignatureInv, SignatureVerifies
  <2> QED BY <1>1, <2>1, <2>3, <2>5 DEF SignatureInv
<1> QED BY <1>1, <1>2, KeypairStep, MultiplyStep, AddressStep, DeriveStep, PointStep,
        HashStep, FinishStep, ThrowStep DEF Next

(* While a key or a nonce is multiplied, the accumulator is a Jacobian     *)
(* form of the multiple that the bits read so far make, and the addition   *)
(* that may follow the doubling never meets two forms of one point, the    *)
(* case group_add gets wrong: for every scalar below the order, on every   *)
(* curve of the shape of Pallas, with SCALAR_BITS of any size.             *)
THEOREM MultipliesRight == Spec => []LoopInvariant
<1>1. SignatureInv => LoopInvariant
  <2> SUFFICES ASSUME SignatureInv, pc \in {"pub", "point"}
               PROVE  LET scalar == IF pc = "pub" THEN priv ELSE k
                      IN  /\ affine_from_group(acc) = Times(Prefix(scalar, i), AFFINE_ONE)
                          /\ i < SCALAR_BITS => ~Twins(group_dbl(acc), affine_to_group(AFFINE_ONE))
      BY DEF LoopInvariant, Prefix
  <2> DEFINE s == IF pc = "pub" THEN priv ELSE k
  <2>1. s \in Scalar /\ i \in 0 .. SCALAR_BITS /\ Represents(acc, Times(Prefix(s, i), AFFINE_ONE))
      BY DEF SignatureInv, ScalarsInRange, Parameters, Multiplying
  <2> HIDE DEF s
  <2>2. affine_from_group(acc) = Times(Prefix(s, i), AFFINE_ONE)
      BY <2>1, AffineOfForm
  <2>3. ASSUME i < SCALAR_BITS PROVE ~Twins(group_dbl(acc), affine_to_group(AFFINE_ONE))
    <3>1. i \in 0 .. SCALAR_BITS - 1
        BY <2>1, <2>3, WidthAssumption
    <3> QED BY <2>1, <3>1, GeneratorIs, LoopStep
  <2> QED BY <2>2, <2>3 DEF s
<1> QED BY <1>1, Starts, Inductive, PTL DEF Spec

(* From the sponge's state after any block, the blocks absorbed can be     *)
(* taken out again, back to the initial state of the network: for messages *)
(* of every length, any number of rounds, any round keys and any matrix    *)
(* that has an inverse.                                                    *)
THEOREM SpongeAlwaysRewinds == Spec => []SpongeRewinds
<1>1. SignatureInv => SpongeRewinds
  <2> SUFFICES ASSUME SignatureInv, pc = "hash"
               PROVE  LET s[b \in 0 .. block - 1] ==
                              IF b = 0 THEN pos ELSE UnAbsorb(s[b - 1], Block(hash_msg, block - b))
                      IN  s[block - 1] = IV
      BY DEF SpongeRewinds
  <2>1. /\ hash_msg \in Seq(Field) /\ block \in 1 .. Blocks(hash_msg) + 1
        /\ pos = Chain(IV, hash_msg)[block - 1]
      BY WhileHashing
  <2>2. IV \in State
      BY TablesAre
  <2>3. LET s[b \in 0 .. block - 1] ==
                IF b = 0 THEN Chain(IV, hash_msg)[block - 1] ELSE UnAbsorb(s[b - 1], Block(hash_msg, block - b))
        IN  s[block - 1] = IV
      BY <2>1, <2>2, Rewound, Zenon
  <2> QED BY <2>1, <2>3
<1> QED BY <1>1, Starts, Inductive, PTL DEF Spec

(* Every signature the app returns verifies against the address the user   *)
(* was shown, unless its nonce was zero: for every curve of the shape of   *)
(* Pallas, every key, nonce, transaction and network.                      *)
THEOREM SignaturesVerify == Spec => []SignatureVerifies
<1>1. SignatureInv => SignatureVerifies
    BY DEF SignatureInv
<1> QED BY <1>1, Starts, Inductive, PTL DEF Spec

----------------------------------------------------------------------------
(* The points of a vector are the multiples that its scalars make.         *)
VectorInv ==
    /\ S \in Scalar \X Scalar \X Scalar
    /\ A = <<G(S[1]), G(S[2]), G(S[3])>>

LEMMA VectorStays ==
    /\ EachVector => VectorInv
    /\ VectorInv /\ [curve_checks]_vector => VectorInv'
BY DEF EachVector, VectorInv, curve_checks, Test, vector

LEMMA VectorIs ==
    ASSUME VectorInv
    PROVE  \A n \in 1 .. 3 : S[n] \in Scalar /\ S[n] \in Nat /\ A[n] \in Points /\ A[n] = Times(S[n], AFFINE_ONE)
<1>1. S[1] \in Scalar /\ S[2] \in Scalar /\ S[3] \in Scalar
    BY DEF VectorInv
<1>2. A[1] = G(S[1]) /\ A[2] = G(S[2]) /\ A[3] = G(S[3])
    BY DEF VectorInv
<1>3. \A n \in Scalar : n \in Nat /\ n \in Int /\ G(n) \in Points /\ G(n) = Times(n, AFFINE_ONE)
    BY Order, PointsAre, TimesIsPoint DEF G
<1>4. \A n \in 1 .. 3 : n = 1 \/ n = 2 \/ n = 3
    OBVIOUS
<1> QED BY <1>1, <1>2, <1>3, <1>4

LEMMA GeneratePubkey ==
    ASSUME NEW n \in Int
    PROVE  generate_pubkey(n % GROUP_ORDER) = G(n) /\ affine_is_on_curve(G(n))
<1>1. n % GROUP_ORDER \in Scalar /\ Same(GROUP_ORDER, n % GROUP_ORDER, n)
    BY Order
<1>2. generate_pubkey(n % GROUP_ORDER) = Times(n % GROUP_ORDER, AFFINE_ONE)
    BY <1>1, PointsAre, AffineScalarMul DEF generate_pubkey
<1>3. Times(n % GROUP_ORDER, AFFINE_ONE) = Times(n, AFFINE_ONE)
    BY <1>1, TimesSame
<1> QED BY <1>2, <1>3, PointsAre, TimesIsPoint, AffineOnCurve DEF G

(* Each test passes on each vector.                                        *)
LEMMA EachTestPasses ==
    ASSUME VectorInv, NEW n \in 1 .. 6
    PROVE  Passes(n)
<1>1. /\ S[1] \in Nat /\ S[2] \in Nat /\ S[3] \in Nat /\ S[1] \in Scalar
      /\ A[1] \in Points /\ A[2] \in Points /\ A[3] \in Points
      /\ A[1] = Times(S[1], AFFINE_ONE) /\ A[2] = Times(S[2], AFFINE_ONE)
    BY VectorIs
<1>2. AFFINE_ONE \in Points
    BY PointsAre
<1>3. /\ S[1] + S[2] \in Int /\ S[2] + S[1] = S[1] + S[2]
      /\ S[1] * S[2] \in Int /\ -S[1] \in Int
    BY <1>1, SMT
<1>4. /\ PointSum(A[1], A[2]) = G(S[1] + S[2])
      /\ PointSum(A[2], A[1]) = G(S[1] + S[2])
  <2>1. S[1] \in Int /\ S[2] \in Int
      BY <1>1
  <2>2. Times(S[1] + S[2], AFFINE_ONE) = PointSum(Times(S[1], AFFINE_ONE), Times(S[2], AFFINE_ONE))
      BY <1>2, <2>1, Sums
  <2>3. Times(S[2] + S[1], AFFINE_ONE) = PointSum(Times(S[2], AFFINE_ONE), Times(S[1], AFFINE_ONE))
      BY <1>2, <2>1, Sums
  <2> QED BY <1>1, <1>3, <2>2, <2>3 DEF G
<1>5. CASE n = 1
    BY <1>1, <1>5, AffineOnCurve, VectorIs DEF Passes
<1>6. CASE n = 2
    BY <1>1, <1>3, <1>4, <1>6, AffineAdd, GeneratePubkey DEF Passes, Agree, T
<1>7. CASE n = 3
  <2>1. generate_pubkey(scalar_add(S[1], S[2])) = G(S[1] + S[2]) /\ affine_is_on_curve(G(S[1] + S[2]))
      BY <1>3, GeneratePubkey DEF scalar_add
  <2> QED BY <1>1, <1>4, <1>7, <2>1, AffineAdd DEF Passes, Agree, T
<1>8. CASE n = 4
  <2>1. generate_pubkey(scalar_mul(S[1], S[2])) = G(S[1] * S[2]) /\ affine_is_on_curve(G(S[1] * S[2]))
      BY <1>3, GeneratePubkey DEF scalar_mul
  <2>2. affine_scalar_mul(S[1], A[2]) = G(S[1] * S[2])
    <3>1. S[1] \in Int /\ S[2] \in Int
        BY <1>1
    <3>2. Times(S[1], Times(S[2], AFFINE_ONE)) = Times(S[1] * S[2], AFFINE_ONE)
        BY <1>2, <3>1, Products
    <3>3. affine_scalar_mul(S[1], A[2]) = Times(S[1], A[2])
        BY <1>1, AffineScalarMul
    <3> QED BY <1>1, <3>2, <3>3 DEF G
  <2> QED BY <1>8, <2>1, <2>2 DEF Passes, Agree, T
<1>9. CASE n = 5
  <2>1. generate_pubkey(scalar_negate(S[1])) = G(-S[1]) /\ affine_is_on_curve(G(-S[1]))
      BY <1>3, GeneratePubkey DEF scalar_negate
  <2>2. affine_negate(A[1]) = G(-S[1])
      BY <1>1, <1>2, AffineNegate DEF G
  <2> QED BY <1>9, <2>1, <2>2 DEF Passes, Agree, T
<1>10. CASE n = 6
  <2>1. PointSum(A[1], A[2]) \in Points /\ PointSum(A[2], A[3]) \in Points
      BY <1>1, SumCloses
  <2>2. PointSum(PointSum(A[1], A[2]), A[3]) \in Points
      BY <1>1, <2>1, SumCloses
  <2>3. PointSum(PointSum(A[1], A[2]), A[3]) = PointSum(A[1], PointSum(A[2], A[3]))
      BY <1>1, GroupAssumption
  <2> QED BY <1>1, <1>10, <2>1, <2>2, <2>3, AffineAdd, AffineOnCurve DEF Passes, Agree, T
<1> QED BY <1>5, <1>6, <1>7, <1>8, <1>9, <1>10

(* curve_checks never fails: the affine operations of crypto.c are the     *)
(* operations of the group on every curve of prime order, for every scalar *)
(* below the order and every multiple of the generator.                    *)
THEOREM ChecksAlwaysPass == ChecksSpec => []ChecksPass
<1>1. EachVector => ChecksPass
    BY DEF EachVector, ChecksPass, Failed
<1>2. VectorInv /\ ChecksPass /\ [curve_checks]_vector => ChecksPass'
  <2> SUFFICES ASSUME VectorInv, ChecksPass, [curve_checks]_vector PROVE ChecksPass'
      OBVIOUS
  <2>1. ASSUME NEW n \in 1 .. 6, Test(n) PROVE ChecksPass'
    <3>1. test' = n + 1
        BY <2>1, EachTestPasses DEF Test
    <3> QED BY <3>1 DEF ChecksPass, Failed
  <2>2. CASE UNCHANGED vector
      BY <2>2 DEF vector, ChecksPass
  <2> QED BY <2>1, <2>2 DEF curve_checks
<1> QED BY <1>1, <1>2, VectorStays, PTL DEF ChecksSpec

(* The forms FormsAdd quantifies over are forms of the point.              *)
LEMMA FormsRepresent ==
    ASSUME NEW p \in Points, NEW a \in Forms(p)
    PROVE  Represents(a, p)
<1>1. CASE p = Infinity
  <2>1. PICK z \in Field : a = [X |-> (z * z) % FIELD_MODULUS, Y |-> (z * z * z) % FIELD_MODULUS, Z |-> 0]
      BY <1>1 DEF Forms
  <2>2. z * z \in Int /\ z * z * z \in Int
      BY Modulus, SMT
  <2>3. (z * z) % FIELD_MODULUS \in Field /\ (z * z * z) % FIELD_MODULUS \in Field
      BY <2>2, Residue
  <2>4. a \in Group /\ a.Z = 0
      BY <2>1, <2>3, GroupIs, Modulus
  <2> QED BY <1>1, <2>4 DEF Represents, group_is_zero
<1>2. CASE p # Infinity
  <2>1. PICK z \in Field \ {0} :
            a = [X |-> (p.x * z * z) % FIELD_MODULUS, Y |-> (p.y * z * z * z) % FIELD_MODULUS, Z |-> z]
      BY <1>2 DEF Forms
  <2>2. p.x \in Int /\ p.y \in Int /\ z \in Int
      BY PointsAre, Modulus
  <2> DEFINE u == p.x * z * z
             v == p.y * z * z * z
  <2>3. u \in Int /\ v \in Int /\ u = p.x * (z * z) /\ v = p.y * (z * (z * z))
      BY <2>2, SMT
  <2> HIDE DEF u, v
  <2>4. u % FIELD_MODULUS \in Field /\ Cong(u % FIELD_MODULUS, u) /\ v % FIELD_MODULUS \in Field /\ Cong(v % FIELD_MODULUS, v)
      BY <2>3, Residue
  <2>5. a = [X |-> u % FIELD_MODULUS, Y |-> v % FIELD_MODULUS, Z |-> z]
      BY <2>1 DEF u, v
  <2>6. a \in Group /\ a.X = u % FIELD_MODULUS /\ a.Y = v % FIELD_MODULUS /\ a.Z = z
      BY <2>4, <2>5, GroupIs
  <2>7. FormOf(a, p.x, p.y)
      BY <2>3, <2>4, <2>6 DEF FormOf
  <2> QED BY <1>2, <2>1, <2>6, <2>7 DEF Represents, group_is_zero
<1> QED BY <1>1, <1>2

(* group_add adds any forms of any points of a vector, its result is on    *)
(* the curve, and the one exception is two different forms of one point:   *)
(* on every curve over a prime field, not only on one of 19 points.        *)
THEOREM FormsAlwaysAdd == ChecksSpec => []FormsAdd
<1>1. VectorInv => FormsAdd
  <2> SUFFICES ASSUME VectorInv, NEW p \in Forms(A[1]), NEW q \in Forms(A[2])
               PROVE  /\ group_is_on_curve(group_add(p, q))
                      /\ affine_from_group(group_add(p, q))
                           = IF Twins(p, q) THEN Infinity ELSE PointSum(A[1], A[2])
      BY DEF FormsAdd
  <2>1. A[1] \in Points /\ A[2] \in Points
      BY VectorIs
  <2>2. Represents(p, A[1]) /\ Represents(q, A[2])
      BY <2>1, FormsRepresent
  <2>3. Represents(group_add(p, q), IF Twins(p, q) THEN Infinity ELSE PointSum(A[1], A[2]))
      BY <2>2, AddIs
  <2> QED BY <2>3, AffineOfForm, OnCurveForm
<1> QED BY <1>1, VectorStays, PTL DEF ChecksSpec
=============================================================================
