------------------------------ MODULE Poseidon ------------------------------
(***************************************************************************)
(* The hash of a signature's challenge (poseidon.c): a state of three      *)
(* field elements, two of which absorb the message in pairs with a         *)
(* permutation after each pair.  The tables of the code are constants.     *)
(***************************************************************************)
EXTENDS Pallas, Sequences

CONSTANTS
    round_keys,     \* one triple for each round, the last of them for the final addition
    mds_matrix,     \* SPONGE_SIZE rows
    TESTNET_IV,     \* the state a hash starts from, on either network
    MAINNET_IV,
    mds_inverse     \* not in the code: the inverse of mds_matrix, to run a round backwards

SPONGE_SIZE == 3
FULL_ROUNDS == Len(round_keys) - 1
TESTNET_ID  == 0
MAINNET_ID  == 1
Elements    == 1 .. SPONGE_SIZE
State       == [Elements -> Field]

Dot(u, v) == field_add(field_add(field_mul(u[1], v[1]), field_mul(u[2], v[2])), field_mul(u[3], v[3]))

ASSUME TablesAssumption ==
    /\ round_keys \in Seq(State) /\ round_keys # <<>>
    /\ TESTNET_IV \in State /\ MAINNET_IV \in State
    /\ \A i \in Elements : mds_matrix[i] \in State /\ mds_inverse[i] \in State
    /\ \A i, j \in Elements : Dot(mds_inverse[i], [k \in Elements |-> mds_matrix[k][j]]) = (IF i = j THEN 1 ELSE 0)

\* 5 is prime to FIELD_MODULUS - 1 in the code: no two elements have one fifth power.
ASSUME FifthPowerAssumption ==
    \A x, y \in Field : (x * x * x * x * x - y * y * y * y * y) % FIELD_MODULUS = 0 => x = y

----------------------------------------------------------------------------
ark(s, r) == [i \in Elements |-> field_add(s[i], round_keys[r][i])]

sbox(x) == field_pow(x, 5)

\* Slip: the new elements are written over the ones still to be read.
matrix_mul_inPlace(s, m) ==
    LET s1 == [s EXCEPT ![1] = Dot(s, m[1])]
        s2 == [s1 EXCEPT ![2] = Dot(s1, m[2])]
    IN  [s2 EXCEPT ![3] = Dot(s2, m[3])]
matrix_mul(s, m) == [row \in Elements |-> Dot(s, m[row])]

Round(s, r) == matrix_mul([i \in Elements |-> sbox(ark(s, r)[i])], mds_matrix)

poseidon_permutation(s) ==
    LET t[r \in 0 .. FULL_ROUNDS] == IF r = 0 THEN s ELSE Round(t[r - 1], r)
    IN  ark(t[FULL_ROUNDS], FULL_ROUNDS + 1)

\* Any other network leaves the state as it was, which is not written yet.
poseidon_init(s, network_id) ==
    CASE network_id = TESTNET_ID -> TESTNET_IV
      [] network_id = MAINNET_ID -> MAINNET_IV
      [] OTHER -> s

\* Block b of an input of any length: a pair, or the odd one at the end.
Blocks(input)   == (Len(input) + 1) \div 2
Block(input, b) == SubSeq(input, 2 * b - 1, IF 2 * b <= Len(input) THEN 2 * b ELSE Len(input))
Absorb(s, block) ==
    poseidon_permutation([i \in Elements |-> IF i <= Len(block) THEN field_add(s[i], block[i]) ELSE s[i]])
poseidon_update(s, input) ==
    LET t[b \in 0 .. Blocks(input)] == IF b = 0 THEN s ELSE Absorb(t[b - 1], Block(input, b))
    IN  t[Blocks(input)]

poseidon_digest(s) == s[1]

----------------------------------------------------------------------------
\* A hash run backwards, from the definition of its parts.
Root5(y) == CHOOSE x \in Field : (x * x * x * x * x - y) % FIELD_MODULUS = 0
UnKey(s, r)   == [i \in Elements |-> (s[i] - round_keys[r][i]) % FIELD_MODULUS]
UnRound(s, r) == UnKey([i \in Elements |-> Root5(Dot(s, mds_inverse[i]))], r)
UnPermute(s)  ==
    LET t[n \in 0 .. FULL_ROUNDS] ==
            IF n = 0 THEN UnKey(s, FULL_ROUNDS + 1) ELSE UnRound(t[n - 1], FULL_ROUNDS + 1 - n)
    IN  t[FULL_ROUNDS]
UnAbsorb(s, block) ==
    LET t == UnPermute(s)
    IN  [i \in Elements |-> IF i <= Len(block) THEN (t[i] - block[i]) % FIELD_MODULUS ELSE t[i]]
=============================================================================
