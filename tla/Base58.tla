------------------------------- MODULE Base58 -------------------------------
(***************************************************************************)
(* b58_encode and b58_decode of utils.c.  A character is its place in      *)
(* B58_ALPHABET, and BASE stands for every character that is not in it.    *)
(***************************************************************************)
EXTENDS Powers, FiniteSetsExt, SequencesExt

CONSTANTS
    BASE,        \* 58
    BYTE,        \* 256
    LimbBytes    \* 4: the bytes of b58_almostmaxint_t

\* Two characters hold a byte.
ASSUME BaseAssumption ==
    BASE \in Nat \ {0, 1} /\ BYTE \in Nat \ {0, 1} /\ BASE * BASE >= BYTE /\ LimbBytes \in Nat \ {0}

Fail == <<-1>>

LeadingZeros(s) ==
    LET others == {i \in DOMAIN s : s[i] # 0}
    IN  IF others = {} THEN Len(s) ELSE Min(others) - 1
Zeros(n) == [i \in 1 .. n |-> 0]

----------------------------------------------------------------------------
\* The first bytes of tmp, up to each one, after a long division by BASE of
\* those from startAt on, and what remains there.
Divides(tmp, startAt) ==
    LET divide[i \in startAt - 1 .. Len(tmp)] ==
            IF i = startAt - 1 THEN [tmp |-> SubSeq(tmp, 1, startAt - 1), remainder |-> 0]
            ELSE LET before == divide[i - 1]
                     tmpDiv == before.remainder * BYTE + tmp[i]
                 IN  [tmp |-> Append(before.tmp, tmpDiv \div BASE), remainder |-> tmpDiv % BASE]
    IN  divide

\* One division; the remainder is the next character from the right.
\* Nothing happens when all of tmp has been used up.
Divide(st) ==
    LET pass == Divides(st.tmp, st.startAt)[Len(st.tmp)]
    IN  IF st.startAt > Len(st.tmp) THEN st
        ELSE [tmp     |-> pass.tmp,
              startAt |-> IF pass.tmp[st.startAt] = 0 THEN st.startAt + 1 ELSE st.startAt,
              buffer  |-> <<pass.remainder>> \o st.buffer]

\* The loop ends before 3 * Len(in) divisions, if it ends in its buffer.
Divisions(in) ==
    LET st[n \in 0 .. 3 * Len(in)] ==
            IF n = 0 THEN [tmp |-> in, startAt |-> LeadingZeros(in) + 1, buffer |-> <<>>]
            ELSE Divide(st[n - 1])
    IN  st
Divided(in) == Divisions(in)[3 * Len(in)]

\* Slip: the characters for leading zero bytes are not put back.
b58_encode_noZeros(in, maxoutlen) ==
    LET buffer == Divided(in).buffer
        out    == SubSeq(buffer, LeadingZeros(buffer) + 1, Len(buffer))
    IN  IF maxoutlen < Len(out) THEN Fail ELSE out
b58_encode(in, maxoutlen) ==
    LET buffer == Divided(in).buffer
        out    == Zeros(LeadingZeros(in)) \o SubSeq(buffer, LeadingZeros(buffer) + 1, Len(buffer))
    IN  IF maxoutlen < Len(out) THEN Fail ELSE out

----------------------------------------------------------------------------
LimbSize == Power(BYTE)[LimbBytes]
outisz(binsz)    == (binsz + LimbBytes - 1) \div LimbBytes
bytesleft(binsz) == binsz % LimbBytes

\* The last n limbs of outi times BASE plus a character, from the last one on,
\* and what is carried out of them.
Multiplies(outi, c) ==
    LET multiply[n \in 0 .. Len(outi)] ==
            IF n = 0 THEN [outi |-> <<>>, carry |-> c]
            ELSE LET after == multiply[n - 1]
                     t     == outi[Len(outi) + 1 - n] * BASE + after.carry
                 IN  [outi |-> <<t % LimbSize>> \o after.outi, carry |-> t \div LimbSize]
    IN  multiply
MultiplyAdd(outi, c) == Multiplies(outi, c)[Len(outi)]

\* Slip: the unused bytes of the first limb are not looked at.
TooBig_unmasked(next, binsz) ==
    next.carry # 0
TooBig(next, binsz) ==
    \/ next.carry # 0
    \/ bytesleft(binsz) # 0 /\ next.outi[1] >= Power(BYTE)[bytesleft(binsz)]

\* The limbs of the first k characters of a text, Fail from the first one on
\* that is not of the alphabet or makes the number too big.
Limbs(binsz, b58) ==
    LET step(outi, c) ==
            IF outi = Fail \/ c = BASE THEN Fail
            ELSE LET next == MultiplyAdd(outi, c)
                 IN  IF TooBig(next, binsz) THEN Fail ELSE next.outi
        limbs[k \in 0 .. Len(b58)] ==
            IF k = 0 THEN Zeros(outisz(binsz)) ELSE step(limbs[k - 1], b58[k])
    IN  limbs

\* The bytes of the limbs, the first of which may hold fewer.
Bytes(binsz, outi) ==
    [n \in 1 .. binsz |->
        LET fromEnd == binsz - n
        IN  (outi[Len(outi) - fromEnd \div LimbBytes] \div Power(BYTE)[fromEnd % LimbBytes]) % BYTE]

\* The buffer as the code leaves it: not written at all on failure.
b58_decode(bin, b58) ==
    LET outi == Limbs(Len(bin), b58)[Len(b58)]
    IN  IF outi = Fail THEN [ok |-> FALSE, bin |-> bin, binsz |-> Len(bin)]
        ELSE LET bytes == Bytes(Len(bin), outi)
             IN  [ok |-> TRUE, bin |-> bytes, binsz |-> Len(bytes) - LeadingZeros(bytes) + LeadingZeros(b58)]
=============================================================================
