----------------------------- MODULE Signature -----------------------------
(***************************************************************************)
(* sign_transaction's use of crypto.c: the key pair of the account, the    *)
(* check of its address, and sign.  The two scalar multiplications go bit  *)
(* by bit and the challenge's hash block by block.  What BIP32 derivation  *)
(* and BLAKE2b return is any string of SCALAR_BITS bits; every call may    *)
(* throw instead.  A transaction is the field elements that go before and  *)
(* after the key and r.x in the hashed message (ROInput has them).         *)
(***************************************************************************)
EXTENDS Poseidon

CONSTANTS
    Transactions,    \* a set of [before : Seq(Field), after : Seq(Field)]
    Junk             \* what the stack may hold where the sponge state will be

ASSUME TransactionsAssumption ==
    \A tx \in Transactions : tx.before \in Seq(Field) /\ tx.after \in Seq(Field)

\* GROUP_COEFF_B is no square: no point but the one at infinity has x = 0.
ASSUME CoeffAssumption == \A y \in Field : (y * y) % FIELD_MODULUS # GROUP_COEFF_B

VARIABLES
    network_id,   \* one parse_tx let through
    transaction,
    from,         \* the key the user was shown, as an address holds it: x and parity
    pc,           \* what is running
    priv, pub,    \* kp
    k,            \* the nonce
    acc, i,       \* q and i of group_scalar_mul
    r,            \* k times the generator
    pos, block,   \* the sponge and the next block it absorbs
    sig           \* rx and s

vars == <<network_id, transaction, from, pc, priv, pub, k, acc, i, r, pos, block, sig>>

compress(p) == [x |-> p.x, is_odd |-> field_is_odd(p.y)]

Bytes     == 0 .. Power(2)[SCALAR_BITS] - 1    \* what fills a Scalar before it is one
NoSig     == [rx |-> 0, s |-> 0]

Init ==
    /\ network_id \in {TESTNET_ID, MAINNET_ID}
    /\ transaction \in Transactions
    /\ from \in {compress(p) : p \in Points}
    /\ pc = "seed"
    /\ priv = 0 /\ pub = Infinity
    /\ k = 0 /\ r = Infinity
    /\ acc = GROUP_ZERO /\ i = 0
    /\ pos \in Junk /\ block = 0
    /\ sig = NoSig

\* group_scalar_mul's start: it returns at once for a scalar that is zero.
StartMul(scalar) ==
    /\ acc' = GROUP_ZERO
    /\ i' = IF scalar = 0 THEN SCALAR_BITS ELSE 0

generate_keypair ==
    /\ pc = "seed"
    /\ \E bytes \in Bytes : priv' = scalar_from_bytes(bytes)
    /\ StartMul(priv')
    /\ pc' = "pub"
    /\ UNCHANGED <<network_id, transaction, from, pub, k, r, pos, block, sig>>

\* One turn of the loop, whichever of the two multiplications runs.
MultiplyBit ==
    /\ pc \in {"pub", "point"} /\ i < SCALAR_BITS
    /\ acc' = ScalarMulStep(acc, IF pc = "pub" THEN priv ELSE k, i, affine_to_group(AFFINE_ONE))
    /\ i' = i + 1
    /\ UNCHANGED <<network_id, transaction, from, pc, priv, pub, k, r, pos, block, sig>>

CheckAddress ==
    /\ pc = "pub" /\ i = SCALAR_BITS
    /\ pub' = affine_from_group(acc)
    /\ IF compress(pub') = from THEN pc' = "derive" /\ UNCHANGED priv
                               ELSE pc' = "error" /\ priv' = 0
    /\ UNCHANGED <<network_id, transaction, from, k, acc, i, r, pos, block, sig>>

message_derive ==
    /\ pc = "derive"
    /\ \E bytes \in Bytes : k' = scalar_from_bytes(bytes)
    /\ StartMul(k')
    /\ pc' = "point"
    /\ UNCHANGED <<network_id, transaction, from, priv, pub, r, pos, block, sig>>

\* Slip: the nonce is kept when the point has an odd y.
Nonce_asIs(point) == k
Nonce(point) == IF field_is_odd(point.y) THEN scalar_negate(k) ELSE k

TakePoint ==
    /\ pc = "point" /\ i = SCALAR_BITS
    /\ r' = affine_from_group(acc)
    /\ sig' = [sig EXCEPT !.rx = r'.x]
    /\ k' = Nonce(r')
    /\ pos' = poseidon_init(pos, network_id)
    /\ block' = 1
    /\ pc' = "hash"
    /\ UNCHANGED <<network_id, transaction, from, priv, pub, acc, i>>

HashMessage(tx, key, rx) == tx.before \o <<key.x, key.y, rx>> \o tx.after
hash_msg == HashMessage(transaction, pub, r.x)

message_hash ==
    /\ pc = "hash" /\ block <= Blocks(hash_msg)
    /\ pos' = Absorb(pos, Block(hash_msg, block))
    /\ block' = block + 1
    /\ UNCHANGED <<network_id, transaction, from, pc, priv, pub, k, acc, i, r, sig>>

\* The secrets are wiped whichever way it ends.
Finish ==
    /\ pc = "hash" /\ block > Blocks(hash_msg)
    /\ sig' = [sig EXCEPT !.s = scalar_add(k, scalar_mul(poseidon_digest(pos), priv))]
    /\ k' = 0 /\ priv' = 0
    /\ pc' = "signed"
    /\ UNCHANGED <<network_id, transaction, from, pub, acc, i, r, pos, block>>

Throw ==
    /\ pc \notin {"signed", "error"}
    /\ k' = 0 /\ priv' = 0
    /\ pc' = "error"
    /\ UNCHANGED <<network_id, transaction, from, pub, acc, i, r, pos, block, sig>>

Next ==
    \/ generate_keypair \/ MultiplyBit \/ CheckAddress
    \/ message_derive \/ TakePoint \/ message_hash \/ Finish
    \/ Throw

Spec == Init /\ [][Next]_vars

----------------------------------------------------------------------------
(* Scalars stay scalars: what derivation and hashing put into priv and k   *)
(* is below the order without the rejection sampling of other signers, as  *)
(* the comment in scalar_from_bytes claims, and so is -k.                  *)
ScalarsInRange == priv \in Scalar /\ k \in Scalar

(* The loop of group_scalar_mul holds a form of the multiple of the        *)
(* generator that the bits read so far make, and the doubled point and the *)
(* generator are never two forms of one point, which group_add would add   *)
(* up to zero.                                                             *)
LoopInvariant ==
    pc \in {"pub", "point"} =>
        LET scalar == IF pc = "pub" THEN priv ELSE k
        IN  /\ affine_from_group(acc) = Times(scalar \div Power(2)[SCALAR_BITS - i], AFFINE_ONE)
            /\ i < SCALAR_BITS => ~Twins(group_dbl(acc), affine_to_group(AFFINE_ONE))

IV == IF network_id = TESTNET_ID THEN TESTNET_IV ELSE MAINNET_IV

(* The challenge loses nothing on its way into the sponge: from its state  *)
(* after any block, the blocks absorbed can be taken out again, back to    *)
(* the initial state of the network that was asked for.  So two messages   *)
(* that differ in one block, or one message on two networks, never meet in *)
(* one state, and the stack's junk is never hashed.                        *)
SpongeRewinds ==
    pc = "hash" =>
        LET s[b \in 0 .. block - 1] ==
                IF b = 0 THEN pos ELSE UnAbsorb(s[b - 1], Block(hash_msg, block - b))
        IN  s[block - 1] = IV

(* Every signature verifies, with the key read from the address the user   *)
(* was shown, by the verifier of Mina's signature specification: s G - e P *)
(* has an even y and the x of the signature.  The one exception is a nonce *)
(* of zero, which neither message_derive nor sign refuses.                 *)
Decompress(a) == CHOOSE p \in Points : compress(p) = a
Verifies ==
    LET P == Decompress(from)
        e == poseidon_digest(poseidon_update(IV, HashMessage(transaction, P, sig.rx)))
        R == PointSum(Times(sig.s, AFFINE_ONE), Opposite(Times(e, P)))
    IN  R # Infinity /\ R.y % 2 = 0 /\ R.x = sig.rx
SignatureVerifies == pc = "signed" /\ r # Infinity => Verifies
=============================================================================
