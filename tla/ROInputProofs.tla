--------------------------- MODULE ROInputProofs ---------------------------
(***************************************************************************)
(* Theorems about ROInput, for every transaction, key, nonce point and     *)
(* network whose parts have the widths of the code.                        *)
(***************************************************************************)
EXTENDS ROInput, NatLemmas

(* part stands in bits, from the position after offset.                    *)
Holds(bits, offset, part) ==
    /\ offset \in Nat /\ offset + Len(part) <= Len(bits)
    /\ \A j \in 1 .. Len(part) : bits[offset + j] = part[j]

----------------------------------------------------------------------------
(* Bytes and their bits.                                                   *)
LEMMA PowersOfTwo ==
    /\ Power(2)[0] = 1 /\ Power(2)[1] = 2 /\ Power(2)[2] = 4 /\ Power(2)[3] = 8
    /\ Power(2)[4] = 16 /\ Power(2)[5] = 32 /\ Power(2)[6] = 64 /\ Power(2)[7] = 128
<1> DEFINE p == Power(2)
<1>1. p[0] = 1 /\ \A n \in Nat : p[n + 1] = 2 * p[n]
    BY PowerUnfolds
<1> HIDE DEF p
<1>2. p[0 + 1] = 2 /\ p[1] = 2
    BY <1>1
<1>3. p[1 + 1] = 4
    BY <1>1, <1>2
<1>4. p[2 + 1] = 8
    BY <1>1, <1>3
<1>5. p[3 + 1] = 16
    BY <1>1, <1>4
<1>6. p[4 + 1] = 32
    BY <1>1, <1>5
<1>7. p[5 + 1] = 64
    BY <1>1, <1>6
<1>8. p[6 + 1] = 128
    BY <1>1, <1>7
<1> QED BY <1>1, <1>2, <1>3, <1>4, <1>5, <1>6, <1>7, <1>8 DEF p

LEMMA ByteBack ==
    ASSUME NEW b \in 0 .. 255
    PROVE  ((b \div 1) % 2) + 2 * ((b \div 2) % 2) + 4 * ((b \div 4) % 2) + 8 * ((b \div 8) % 2)
               + 16 * ((b \div 16) % 2) + 32 * ((b \div 32) % 2) + 64 * ((b \div 64) % 2)
               + 128 * ((b \div 128) % 2) = b
BY SMTT(60)

LEMMA BitsIs ==
    ASSUME NEW n \in Nat, NEW b \in ByteString(n)
    PROVE  /\ Bits(b) \in Seq(OneBit) /\ Len(Bits(b)) = 8 * n
           /\ \A k \in 1 .. n, j \in 0 .. 7 :
                 Bits(b)[8 * (k - 1) + j + 1] = (b[k] \div Power(2)[j]) % 2
<1>1. Len(b) = n
    BY StringIs DEF ByteString
<1> DEFINE bit(k) == (b[(k - 1) \div 8 + 1] \div Power(2)[(k - 1) % 8]) % 2
<1>2. Bits(b) = [k \in 1 .. 8 * n |-> bit(k)]
    BY <1>1 DEF Bits
<1>3. \A k \in 1 .. 8 * n : bit(k) \in 0 .. 1
  <2> TAKE k \in 1 .. 8 * n
  <2> DEFINE h == (k - 1) \div 8 + 1
             l == (k - 1) % 8
  <2>1. h \in 1 .. n /\ l \in 0 .. 7
      BY SMT
  <2>2. b[h] \in 0 .. 255
      BY <2>1 DEF ByteString, OneByte
  <2> HIDE DEF h, l
  <2> DEFINE p == Power(2)[l]
  <2>3. p \in Nat \ {0}
      BY <2>1, PowerPositive
  <2> HIDE DEF p
  <2>4. b[h] \div p \in Int
    <3> DEFINE x == b[h]
    <3>1. x \in Int
        BY <2>2
    <3> HIDE DEF x
    <3> QED BY <2>3, <3>1, Division DEF x
  <2> DEFINE q == b[h] \div p
  <2> HIDE DEF q
  <2>5. q % 2 \in 0 .. 1
      BY <2>4 DEF q
  <2> QED BY <2>5 DEF q, p, h, l
<1> HIDE DEF bit
<1>4. 8 * n \in Nat
    BY SMT
<1>5. Bits(b) \in [1 .. 8 * n -> OneBit]
    BY <1>2, <1>3 DEF OneBit
<1>6. ASSUME NEW k \in 1 .. n, NEW j \in 0 .. 7
      PROVE  Bits(b)[8 * (k - 1) + j + 1] = (b[k] \div Power(2)[j]) % 2
  <2> DEFINE m == 8 * (k - 1) + j + 1
  <2>1. m \in 1 .. 8 * n /\ m - 1 = (k - 1) * 8 + j
      BY SMT
  <2>2. ((k - 1) * 8 + j) \div 8 = k - 1 /\ ((k - 1) * 8 + j) % 8 = j
      BY SMT
  <2>3. (m - 1) \div 8 + 1 = k /\ (m - 1) % 8 = j
      BY <2>1, <2>2
  <2> HIDE DEF m
  <2>4. bit(m) = (b[k] \div Power(2)[j]) % 2
      BY <2>3 DEF bit
  <2> QED BY <1>2, <2>1, <2>4 DEF m
<1> QED BY <1>4, <1>5, <1>6, StringIs

LEMMA ReverseIs ==
    ASSUME NEW S, NEW n \in Nat, NEW s \in [1 .. n -> S]
    PROVE  /\ Reverse(s) \in [1 .. n -> S] /\ Reverse(Reverse(s)) = s
           /\ \A k \in 1 .. n : Reverse(s)[k] = s[n - k + 1]
<1>1. Len(s) = n
    BY StringIs
<1>2. Reverse(s) = [k \in 1 .. n |-> s[n - k + 1]]
    BY <1>1 DEF Reverse
<1>3. \A k \in 1 .. n : n - k + 1 \in 1 .. n /\ n - (n - k + 1) + 1 = k
    BY SMT
<1> DEFINE t == Reverse(s)
<1>4. t \in [1 .. n -> S]
    BY <1>2, <1>3
<1>5. Reverse(t) = [k \in 1 .. n |-> t[n - k + 1]]
  <2>1. Len(t) = n
      BY <1>4, StringIs
  <2> HIDE DEF t
  <2> QED BY <2>1 DEF Reverse
<1>6. \A k \in 1 .. n : t[n - k + 1] = s[k]
    BY <1>2, <1>3
<1> QED BY <1>2, <1>4, <1>5, <1>6

(* Bytes are read back from where their bits stand.                        *)
LEMMA BytesBack ==
    ASSUME NEW n \in Nat, NEW b \in ByteString(n), NEW bits, NEW offset, Holds(bits, offset, Bits(b))
    PROVE  BytesAt(bits, offset, n) = b
<1>1. ASSUME NEW k \in 1 .. n PROVE ByteAt(bits, offset + 8 * (k - 1)) = b[k]
  <2>1. b[k] \in 0 .. 255
      BY DEF ByteString, OneByte
  <2> DEFINE o == offset + 8 * (k - 1)
             x == b[k]
  <2>2. ASSUME NEW j \in 0 .. 7 PROVE bits[o + (j + 1)] = (x \div Power(2)[j]) % 2
    <3> DEFINE m == 8 * (k - 1) + j + 1
    <3>1. m \in 1 .. 8 * n /\ offset + m = o + (j + 1)
      <4>1. offset \in Nat
          BY DEF Holds
      <4> QED BY <4>1, SMT
    <3>2. Len(Bits(b)) = 8 * n /\ Bits(b)[m] = (x \div Power(2)[j]) % 2
        BY BitsIs
    <3> HIDE DEF m, o, x
    <3> QED BY <3>1, <3>2 DEF Holds
  <2>3. o \in Int
      BY DEF Holds
  <2> HIDE DEF o, x
  <2>4. /\ bits[o + 1] = (x \div 1) % 2 /\ bits[o + 2] = (x \div 2) % 2
        /\ bits[o + 3] = (x \div 4) % 2 /\ bits[o + 4] = (x \div 8) % 2
        /\ bits[o + 5] = (x \div 16) % 2 /\ bits[o + 6] = (x \div 32) % 2
        /\ bits[o + 7] = (x \div 64) % 2 /\ bits[o + 8] = (x \div 128) % 2
    <3>1. /\ bits[o + (0 + 1)] = (x \div Power(2)[0]) % 2
          /\ bits[o + (1 + 1)] = (x \div Power(2)[1]) % 2
          /\ bits[o + (2 + 1)] = (x \div Power(2)[2]) % 2
          /\ bits[o + (3 + 1)] = (x \div Power(2)[3]) % 2
          /\ bits[o + (4 + 1)] = (x \div Power(2)[4]) % 2
          /\ bits[o + (5 + 1)] = (x \div Power(2)[5]) % 2
          /\ bits[o + (6 + 1)] = (x \div Power(2)[6]) % 2
          /\ bits[o + (7 + 1)] = (x \div Power(2)[7]) % 2
        BY <2>2
    <3>2. /\ 0 + 1 = 1 /\ 1 + 1 = 2 /\ 2 + 1 = 3 /\ 3 + 1 = 4
          /\ 4 + 1 = 5 /\ 5 + 1 = 6 /\ 6 + 1 = 7 /\ 7 + 1 = 8
        OBVIOUS
    <3> QED BY <3>1, <3>2, PowersOfTwo
  <2>5. x \in 0 .. 255
      BY <2>1 DEF x
  <2>6. ByteAt(bits, o) = x
      BY <2>4, <2>5, ByteBack DEF ByteAt
  <2> QED BY <2>6 DEF o, x
<1>2. BytesAt(bits, offset, n) = [k \in 1 .. n |-> b[k]]
    BY <1>1 DEF BytesAt
<1>3. b = [k \in 1 .. n |-> b[k]]
    BY DEF ByteString
<1> QED BY <1>2, <1>3

----------------------------------------------------------------------------
(* Fields, of 256 bits, and the numbers of FIELD_BITS bits among them.     *)
LEMMA FieldIs ==
    ASSUME NEW a \in ByteString(32)
    PROVE  /\ Reverse(a) \in ByteString(32) /\ Reverse(Reverse(a)) = a
           /\ \A k \in 1 .. 32 : Reverse(a)[k] = a[32 - k + 1]
           /\ Bits(Reverse(a)) \in Seq(OneBit) /\ Len(Bits(Reverse(a))) = 256
           /\ Bits(Reverse(a))[256] = (a[1] \div 128) % 2
           /\ ScalarBits(a) \in Seq(OneBit) /\ Len(ScalarBits(a)) = FIELD_BITS
           /\ \A j \in 1 .. FIELD_BITS : ScalarBits(a)[j] = Bits(Reverse(a))[j]
<1>1. a \in ByteString(32) /\ a \in [1 .. 32 -> OneByte] /\ 32 \in Nat
    BY DEF ByteString
<1> DEFINE z == Reverse(a)
           t == Bits(z)
<1>2. /\ z \in ByteString(32) /\ Reverse(z) = a /\ z[32] = a[1]
      /\ \A k \in 1 .. 32 : z[k] = a[32 - k + 1]
  <2>1. z \in [1 .. 32 -> OneByte] /\ Reverse(z) = a /\ \A k \in 1 .. 32 : z[k] = a[32 - k + 1]
    <3> DEFINE n == 32
    <3>1. n \in Nat /\ a \in [1 .. n -> OneByte]
        BY <1>1
    <3> HIDE DEF n
    <3>2. z \in [1 .. n -> OneByte] /\ Reverse(z) = a /\ \A k \in 1 .. n : z[k] = a[n - k + 1]
        BY <3>1, ReverseIs, ZenonT(60)
    <3> QED BY <3>2 DEF n
  <2>2. 32 \in 1 .. 32 /\ 32 - 32 + 1 = 1
      OBVIOUS
  <2>3. z[32] = a[32 - 32 + 1]
      BY <2>1, <2>2
  <2> HIDE DEF z
  <2> QED BY <2>1, <2>2, <2>3 DEF ByteString
<1> HIDE DEF z
<1>3. /\ t \in Seq(OneBit) /\ Len(t) = 8 * 32
      /\ \A k \in 1 .. 32, j \in 0 .. 7 : t[8 * (k - 1) + j + 1] = (z[k] \div Power(2)[j]) % 2
    BY <1>1, <1>2, BitsIs
<1>4. t[256] = (a[1] \div 128) % 2
  <2>1. 32 \in 1 .. 32 /\ 7 \in 0 .. 7 /\ 8 * (32 - 1) + 7 + 1 = 256
      OBVIOUS
  <2>2. t[8 * (32 - 1) + 7 + 1] = (z[32] \div Power(2)[7]) % 2
      BY <1>3, <2>1
  <2> QED BY <1>2, <2>1, <2>2, PowersOfTwo
<1> HIDE DEF t
<1>5. /\ SubSeq(t, 1, FIELD_BITS) \in Seq(OneBit)
      /\ Len(SubSeq(t, 1, FIELD_BITS)) = FIELD_BITS
      /\ \A j \in 1 .. FIELD_BITS : SubSeq(t, 1, FIELD_BITS)[j] = t[j]
  <2> DEFINE m == 0
  <2>1. m \in Nat /\ FIELD_BITS \in Nat /\ m + FIELD_BITS <= Len(t)
        /\ m + 1 = 1 /\ m + FIELD_BITS = FIELD_BITS /\ \A j \in 1 .. FIELD_BITS : m + j = j
      BY <1>3 DEF FIELD_BITS
  <2> HIDE DEF m
  <2>2. /\ SubSeq(t, m + 1, m + FIELD_BITS) \in Seq(OneBit)
        /\ IsSlice(SubSeq(t, m + 1, m + FIELD_BITS), t, m, FIELD_BITS)
      BY <1>3, <2>1, Slice
  <2> QED BY <2>1, <2>2 DEF IsSlice
<1>6. ScalarBits(a) = SubSeq(t, 1, FIELD_BITS)
    BY DEF ScalarBits, t, z
<1>7. Len(t) = 256
    BY <1>3
<1>8. /\ ScalarBits(a) \in Seq(OneBit) /\ Len(ScalarBits(a)) = FIELD_BITS
      /\ \A j \in 1 .. FIELD_BITS : ScalarBits(a)[j] = t[j]
    BY <1>5, <1>6
<1> QED BY <1>2, <1>3, <1>4, <1>7, <1>8, Zenon DEF t, z

LEMMA NumberIs ==
    ASSUME NEW a \in Numbers
    PROVE  a \in ByteString(32) /\ Bits(Reverse(a))[256] = 0
<1>1. a \in ByteString(32) /\ a[1] \in 0 .. 127
  <2>1. a \in ByteString(32) /\ a[1] < 128
      BY DEF Numbers
  <2>2. a[1] \in 0 .. 255
      BY <2>1 DEF ByteString, OneByte
  <2> QED BY <2>1, <2>2
<1> DEFINE x == a[1]
<1>2. (x \div 128) % 2 = 0
  <2>1. x \in 0 .. 127
      BY <1>1
  <2> HIDE DEF x
  <2> QED BY <2>1, SMT
<1>3. Bits(Reverse(a))[256] = (a[1] \div 128) % 2
    BY <1>1, FieldIs
<1> QED BY <1>1, <1>2, <1>3

\* A field without its top bit is a number with the same FIELD_BITS bits.
LEMMA Cleared ==
    ASSUME NEW a \in ByteString(32)
    PROVE  /\ TopBitCleared(a) \in Numbers
           /\ a \in Numbers => TopBitCleared(a) = a
           /\ \A j \in 1 .. FIELD_BITS : Bits(Reverse(TopBitCleared(a)))[j] = Bits(Reverse(a))[j]
<1> DEFINE c == TopBitCleared(a)
<1>1. a \in [1 .. 32 -> OneByte] /\ 1 \in 1 .. 32 /\ a[1] \in 0 .. 255
    BY DEF ByteString, OneByte
<1>2. a[1] % 128 \in 0 .. 127 /\ (a[1] < 128 => a[1] % 128 = a[1])
  <2> DEFINE x == a[1]
  <2>1. x \in 0 .. 255
      BY <1>1
  <2> HIDE DEF x
  <2>2. x % 128 \in 0 .. 127 /\ (x < 128 => x % 128 = x)
      BY <2>1, SMT
  <2> QED BY <2>2 DEF x
<1>3. /\ c \in ByteString(32) /\ c[1] = a[1] % 128
      /\ \A k \in 1 .. 32 : k # 1 => c[k] = a[k]
  <2>1. a[1] % 128 \in OneByte
      BY <1>2 DEF OneByte
  <2> QED BY <1>1, <2>1 DEF ByteString, TopBitCleared
<1>4. c \in Numbers
    BY <1>2, <1>3 DEF Numbers
<1>5. a \in Numbers => c = a
    BY <1>1, <1>2 DEF Numbers, TopBitCleared
<1> HIDE DEF c
<1> DEFINE y == Reverse(c)
           z == Reverse(a)
<1>6. /\ y \in ByteString(32) /\ \A k \in 1 .. 32 : y[k] = c[32 - k + 1]
      /\ z \in ByteString(32) /\ \A k \in 1 .. 32 : z[k] = a[32 - k + 1]
  <2>1. y \in ByteString(32) /\ \A k \in 1 .. 32 : y[k] = c[32 - k + 1]
      BY <1>3, FieldIs, Zenon
  <2>2. z \in ByteString(32) /\ \A k \in 1 .. 32 : z[k] = a[32 - k + 1]
      BY FieldIs
  <2> QED BY <2>1, <2>2
<1> HIDE DEF y, z
<1>7. /\ \A k \in 1 .. 32, j \in 0 .. 7 : Bits(y)[8 * (k - 1) + j + 1] = (y[k] \div Power(2)[j]) % 2
      /\ \A k \in 1 .. 32, j \in 0 .. 7 : Bits(z)[8 * (k - 1) + j + 1] = (z[k] \div Power(2)[j]) % 2
  <2>1. 32 \in Nat
      OBVIOUS
  <2> QED BY <1>6, <2>1, BitsIs
<1>8. ASSUME NEW j \in 1 .. FIELD_BITS PROVE Bits(y)[j] = Bits(z)[j]
  <2> DEFINE k == (j - 1) \div 8 + 1
             i == (j - 1) % 8
  <2>1. k \in 1 .. 32 /\ i \in 0 .. 7 /\ 8 * (k - 1) + i + 1 = j /\ (k = 32 => i \in 0 .. 6)
      BY SMT DEF FIELD_BITS
  <2> HIDE DEF k, i
  <2>2. Bits(y)[j] = (y[k] \div Power(2)[i]) % 2 /\ Bits(z)[j] = (z[k] \div Power(2)[i]) % 2
    <3>1. /\ Bits(y)[8 * (k - 1) + i + 1] = (y[k] \div Power(2)[i]) % 2
          /\ Bits(z)[8 * (k - 1) + i + 1] = (z[k] \div Power(2)[i]) % 2
        BY <1>7, <2>1, Zenon
    <3> QED BY <2>1, <3>1
  <2>3. CASE k # 32
    <3>1. 32 - k + 1 \in 1 .. 32 /\ 32 - k + 1 # 1
        BY <2>1, <2>3
    <3>2. y[k] = z[k]
        BY <1>3, <1>6, <2>1, <3>1
    <3> QED BY <2>2, <3>2
  <2>4. CASE k = 32
    <3>1. y[k] = a[1] % 128 /\ z[k] = a[1]
      <4>1. 32 \in 1 .. 32 /\ 32 - 32 + 1 = 1
          OBVIOUS
      <4>2. y[32] = c[32 - 32 + 1] /\ z[32] = a[32 - 32 + 1]
          BY <1>6, <4>1, Zenon
      <4> QED BY <1>3, <2>4, <4>1, <4>2
    <3> DEFINE Alike(x, p) == ((x % 128) \div p) % 2 = (x \div p) % 2
    <3>2. \A x \in 0 .. 255 : /\ Alike(x, 1) /\ Alike(x, 2) /\ Alike(x, 4) /\ Alike(x, 8)
                              /\ Alike(x, 16) /\ Alike(x, 32) /\ Alike(x, 64)
        BY SMT
    <3>3. i = 0 \/ i = 1 \/ i = 2 \/ i = 3 \/ i = 4 \/ i = 5 \/ i = 6
        BY <2>1, <2>4
    <3> HIDE DEF Alike
    <3>4. /\ Alike(a[1], 1) /\ Alike(a[1], 2) /\ Alike(a[1], 4) /\ Alike(a[1], 8)
          /\ Alike(a[1], 16) /\ Alike(a[1], 32) /\ Alike(a[1], 64)
        BY <1>1, <3>2, Zenon
    <3>5. Alike(a[1], Power(2)[i])
      <4> DEFINE p == Power(2)
      <4>1. /\ p[0] = 1 /\ p[1] = 2 /\ p[2] = 4 /\ p[3] = 8 /\ p[4] = 16 /\ p[5] = 32 /\ p[6] = 64
          BY PowersOfTwo, Zenon
      <4> HIDE DEF p
      <4>2. /\ Alike(a[1], p[0]) /\ Alike(a[1], p[1]) /\ Alike(a[1], p[2]) /\ Alike(a[1], p[3])
            /\ Alike(a[1], p[4]) /\ Alike(a[1], p[5]) /\ Alike(a[1], p[6])
          BY <3>4, <4>1, Zenon
      <4>3. Alike(a[1], p[i])
          BY <3>3, <4>2, Zenon
      <4> QED BY <4>3, Zenon DEF p
    <3> QED BY <2>2, <3>1, <3>5, Zenon DEF Alike
  <2> QED BY <2>3, <2>4
<1> QED BY <1>4, <1>5, <1>8, Zenon DEF c, y, z

Stands(bits, offset, a) ==
    /\ offset + FIELD_BITS <= Len(bits)
    /\ \A j \in 1 .. FIELD_BITS : bits[offset + j] = Bits(Reverse(a))[j]

LEMMA NumberBack ==
    ASSUME NEW a \in Numbers, NEW bits \in Seq(OneBit), NEW offset \in Nat,
           Stands(bits, offset, a)
    PROVE  Reverse(BytesAt(SubSeq(bits, offset + 1, offset + FIELD_BITS) \o <<0>>, 0, FIELD_BYTES)) = a
<1> DEFINE s == SubSeq(bits, offset + 1, offset + FIELD_BITS)
           t == s \o <<0>>
           z == Bits(Reverse(a))
<1>1. /\ s \in Seq(OneBit) /\ Len(s) = 255
      /\ \A j \in 1 .. 255 : s[j] = bits[offset + j]
  <2>1. FIELD_BITS \in Nat
      BY DEF FIELD_BITS
  <2>2. s \in Seq(OneBit) /\ IsSlice(s, bits, offset, FIELD_BITS)
      BY <2>1, Slice DEF Stands
  <2> HIDE DEF s
  <2> QED BY <2>2 DEF FIELD_BITS, IsSlice
<1> HIDE DEF s
<1>2. <<0>> \in Seq(OneBit) /\ Len(<<0>>) = 1 /\ <<0>>[1] = 0
    BY DEF OneBit
<1>3. /\ t \in Seq(OneBit) /\ Len(t) = 256 /\ t[256] = 0
      /\ \A j \in 1 .. 255 : t[j] = s[j]
  <2> DEFINE o == <<0>>
  <2>1. o \in Seq(OneBit) /\ Len(o) = 1 /\ o[1] = 0
      BY <1>2
  <2> HIDE DEF o
  <2> DEFINE u == s \o o
  <2>2. u \in Seq(OneBit) /\ IsJoined(u, s, o)
      BY <1>1, <2>1, Joined
  <2> HIDE DEF u
  <2>3. Len(u) = Len(s) + Len(o) /\ \A j \in 1 .. Len(s) : u[j] = s[j]
      BY <2>2 DEF IsJoined
  <2>4. u[Len(s) + 1] = 0 /\ Len(s) + 1 = 256
    <3>1. 1 \in 1 .. Len(o)
        BY <2>1
    <3>2. u[Len(s) + 1] = o[1]
        BY <2>2, <3>1 DEF IsJoined
    <3> QED BY <1>1, <2>1, <3>2
  <2>5. t = u
      BY DEF u, o
  <2>6. Len(s) = 255 /\ Len(u) = 256
      BY <1>1, <2>1, <2>3
  <2> HIDE DEF t, u
  <2> QED BY <2>2, <2>3, <2>4, <2>5, <2>6
<1> HIDE DEF t
<1>4. /\ Reverse(a) \in ByteString(32) /\ Reverse(Reverse(a)) = a
      /\ Len(z) = 256 /\ z[256] = 0
    BY NumberIs, FieldIs
<1>5. \A j \in 1 .. 255 : bits[offset + j] = z[j]
    BY DEF FIELD_BITS, Stands
<1> HIDE DEF z
<1>6. ASSUME NEW j \in 1 .. 256 PROVE t[j] = z[j]
  <2>1. CASE j = 256
      BY <1>3, <1>4, <2>1
  <2>2. CASE j # 256
    <3>1. j \in 1 .. 255
        BY <2>2
    <3>2. t[j] = s[j]
        BY <1>3, <3>1
    <3>3. s[j] = bits[offset + j]
        BY <1>1, <3>1
    <3>4. bits[offset + j] = z[j]
        BY <1>5, <3>1
    <3> QED BY <3>2, <3>3, <3>4, Zenon
  <2> QED BY <2>1, <2>2
<1>7. Holds(t, 0, z)
  <2>1. \A j \in 1 .. 256 : 0 + j = j
      OBVIOUS
  <2> QED BY <1>3, <1>4, <1>6, <2>1, SMTT(30) DEF Holds
<1>8. BytesAt(t, 0, 32) = Reverse(a)
  <2>1. 32 \in Nat
      OBVIOUS
  <2> QED BY <1>4, <1>7, <2>1, BytesBack DEF z
<1> QED BY <1>4, <1>8 DEF t, s, FIELD_BYTES

----------------------------------------------------------------------------
(* What a sequence of calls writes.                                        *)
Call == [op : {"field"}, value : ByteString(32)] \union [op : {"bits"}, value : Seq(OneBit)]
Kinds == {"field", "bits"}
Element(op) == IF op = "bits" THEN OneBit ELSE ByteString(32)

LEMMA OperandIs ==
    ASSUME NEW c \in Call
    PROVE  /\ c.op \in Kinds /\ Operand(c) \in Seq(Element(c.op)) /\ Len(Operand(c)) \in Nat
           /\ c.op = "field" => /\ c.value \in ByteString(32) /\ Operand(c) = <<Reverse(c.value)>>
                                /\ Len(Operand(c)) = 1
           /\ c.op = "bits" => c.value \in Seq(OneBit) /\ Operand(c) = c.value
<1>1. CASE c.op = "field"
  <2>1. c.value \in ByteString(32)
      BY <1>1 DEF Call
  <2>2. Reverse(c.value) \in ByteString(32)
      BY <2>1, FieldIs
  <2> DEFINE z == Reverse(c.value)
  <2>3. Operand(c) = <<z>>
      BY <1>1 DEF Operand
  <2> HIDE DEF z
  <2>4. Operand(c) \in Seq(ByteString(32)) /\ Len(Operand(c)) = 1
      BY <2>2, <2>3 DEF z
  <2> QED BY <1>1, <2>1, <2>3, <2>4 DEF Kinds, Element, z
<1>2. CASE c.op = "bits"
  <2>1. c.value \in Seq(OneBit)
      BY <1>2 DEF Call
  <2>2. Operand(c) = c.value
      BY <1>2 DEF Operand
  <2>3. Len(c.value) \in Nat
      BY <2>1, LenProperties
  <2> QED BY <1>2, <2>1, <2>2, <2>3 DEF Kinds, Element
<1>3. c.op = "field" \/ c.op = "bits"
    BY DEF Call
<1> QED BY <1>1, <1>2, <1>3

LEMMA WrittenIs ==
    ASSUME NEW all \in Seq(Call), NEW op \in Kinds
    PROVE  /\ Written(all, op)[0] = <<>>
           /\ \A n \in 1 .. Len(all) :
                 Written(all, op)[n] = IF all[n].op = op THEN Written(all, op)[n - 1] \o Operand(all[n])
                                                         ELSE Written(all, op)[n - 1]
           /\ \A n \in 0 .. Len(all) : Written(all, op)[n] \in Seq(Element(op))
<1> DEFINE L == Len(all)
           E == Element(op)
           Def(v, n) == IF all[n].op = op THEN v \o Operand(all[n]) ELSE v
           w == Written(all, op)
<1>1. L \in Nat /\ 0 \in Nat
    BY LenProperties
<1>2. w = [n \in 0 .. L |-> IF n = 0 THEN <<>> ELSE Def(w[n - 1], n)]
  <2>1. FiniteNatInductiveDefHypothesis(w, <<>>, Def, 0, L)
      BY DEF FiniteNatInductiveDefHypothesis, Written
  <2> HIDE DEF w
  <2>2. FiniteNatInductiveDefConclusion(w, <<>>, Def, 0, L)
      BY <1>1, <2>1, FiniteNatInductiveDef
  <2> QED BY <2>2 DEF FiniteNatInductiveDefConclusion
<1> HIDE DEF w
<1>3. w[0] = <<>> /\ \A n \in 1 .. L : w[n] = Def(w[n - 1], n)
  <2> HIDE DEF Def
  <2> QED BY <1>1, <1>2
<1> DEFINE S == {n \in Nat : n <= L => w[n] \in Seq(E)}
<1>4. 0 \in S
    BY <1>3, EmptySeq
<1>5. ASSUME NEW n \in Nat, n \in S PROVE n + 1 \in S
  <2> SUFFICES ASSUME n + 1 <= L PROVE w[n + 1] \in Seq(E)
      OBVIOUS
  <2>1. n + 1 \in 1 .. L /\ (n + 1) - 1 = n /\ n <= L
      BY <1>1
  <2>2. w[n + 1] = Def(w[n], n + 1)
      BY <1>3, <2>1
  <2> DEFINE v == w[n]
             c == all[n + 1]
  <2>3. v \in Seq(E) /\ c \in Call
      BY <1>5, <2>1, ElementOfSeq
  <2>4. c.op = op => Operand(c) \in Seq(E)
      BY <2>3, OperandIs
  <2> HIDE DEF v, c, E
  <2>5. c.op = op => v \o Operand(c) \in Seq(E)
      BY <2>3, <2>4, Joined
  <2> QED BY <2>2, <2>3, <2>5 DEF v, c, Def
<1>6. Nat \subseteq S
  <2> HIDE DEF S
  <2> QED BY <1>4, <1>5, InductionBySet
<1>7. \A n \in 0 .. L : w[n] \in Seq(E)
    BY <1>1, <1>6
<1> QED BY <1>3, <1>7 DEF w

(* Each call adds to the length, and to nothing but the end.               *)
Width(call, op) == IF call.op = op THEN Len(Operand(call)) ELSE 0
Grown(new, old, call, op) ==
    /\ Len(old) \in Nat /\ Len(new) \in Nat /\ Width(call, op) \in Nat
    /\ Len(new) = Len(old) + Width(call, op)
    /\ \A j \in 1 .. Len(old) : new[j] = old[j]
    /\ call.op = op => \A j \in 1 .. Len(Operand(call)) : new[Len(old) + j] = Operand(call)[j]

LEMMA WrittenStep ==
    ASSUME NEW all \in Seq(Call), NEW op \in Kinds, NEW n \in 1 .. Len(all)
    PROVE  Grown(Written(all, op)[n], Written(all, op)[n - 1], all[n], op)
<1> DEFINE E == Element(op)
           new == Written(all, op)[n]
           old == Written(all, op)[n - 1]
           c == all[n]
           u == Operand(c)
<1>1. Len(all) \in Nat /\ n - 1 \in 0 .. Len(all) /\ n \in 0 .. Len(all)
    BY LenProperties
<1>2. old \in Seq(E) /\ new \in Seq(E) /\ new = IF c.op = op THEN old \o u ELSE old
    BY <1>1, WrittenIs
<1>3. c \in Call
    BY ElementOfSeq
<1>4. Len(u) \in Nat /\ (c.op = op => u \in Seq(E))
    BY <1>3, OperandIs
<1>5. Len(old) \in Nat /\ Len(new) \in Nat
    BY <1>2, LenProperties
<1> HIDE DEF new, old, u, c, E
<1>6. CASE c.op = op
  <2>1. new = old \o u /\ u \in Seq(E)
      BY <1>2, <1>4, <1>6
  <2>2. IsJoined(new, old, u)
      BY <1>2, <2>1, Joined
  <2> QED BY <1>4, <1>5, <1>6, <2>2 DEF Grown, IsJoined, Width, new, old, u, c
<1>7. CASE c.op # op
  <2>1. new = old /\ Width(c, op) = 0
      BY <1>2, <1>7 DEF Width
  <2>2. Len(new) = Len(old) + Width(c, op)
      BY <1>5, <2>1
  <2> QED BY <1>5, <1>7, <2>1, <2>2 DEF Grown, Width, new, old, u, c
<1> QED BY <1>6, <1>7

LEMMA WrittenGrows ==
    ASSUME NEW all \in Seq(Call), NEW op \in Kinds, NEW n \in 0 .. Len(all)
    PROVE  \A m \in n .. Len(all) :
              /\ Len(Written(all, op)[n]) <= Len(Written(all, op)[m])
              /\ \A j \in 1 .. Len(Written(all, op)[n]) : Written(all, op)[m][j] = Written(all, op)[n][j]
<1> DEFINE L == Len(all)
           w == Written(all, op)
           Good(m) == /\ Len(w[n]) <= Len(w[m])
                      /\ \A j \in 1 .. Len(w[n]) : w[m][j] = w[n][j]
           S == {d \in Nat : n + d <= L => Good(n + d)}
<1>1. L \in Nat /\ n \in Nat
    BY LenProperties
<1>2. \A m \in 0 .. L : Len(w[m]) \in Nat
    BY WrittenIs, LenProperties
<1>3. 0 \in S
  <2>1. n + 0 = n /\ Len(w[n]) \in Nat
      BY <1>1, <1>2
  <2> HIDE DEF w
  <2> QED BY <2>1
<1>4. ASSUME NEW d \in Nat, d \in S PROVE d + 1 \in S
  <2> SUFFICES ASSUME n + (d + 1) <= L PROVE Good(n + (d + 1))
      OBVIOUS
  <2> DEFINE m == n + d
  <2>1. n + (d + 1) = m + 1 /\ m + 1 \in 1 .. L /\ (m + 1) - 1 = m /\ m <= L /\ m \in 0 .. L
      BY <1>1
  <2>2. Good(m)
      BY <1>4, <2>1
  <2> HIDE DEF m
  <2>3. Len(w[m]) <= Len(w[m + 1]) /\ \A j \in 1 .. Len(w[m]) : w[m + 1][j] = w[m][j]
    <3>1. /\ Len(w[m]) \in Nat /\ Width(all[m + 1], op) \in Nat
          /\ Len(w[m + 1]) = Len(w[m]) + Width(all[m + 1], op)
          /\ \A j \in 1 .. Len(w[m]) : w[m + 1][j] = w[m][j]
      <4> DEFINE k == m + 1
      <4>1. k \in 1 .. L /\ k - 1 = m
          BY <2>1
      <4> HIDE DEF k
      <4>2. Grown(w[k], w[k - 1], all[k], op)
          BY <4>1, WrittenStep
      <4>3. Grown(w[k], w[m], all[k], op)
          BY <4>1, <4>2
      <4> HIDE DEF w
      <4> QED BY <4>3 DEF Grown, k
    <3> HIDE DEF w
    <3> QED BY <3>1
  <2>4. Len(w[n]) \in Nat /\ Len(w[m]) \in Nat /\ Len(w[m + 1]) \in Nat
      BY <1>1, <1>2, <2>1
  <2> HIDE DEF w
  <2>5. Good(m + 1)
      BY <2>2, <2>3, <2>4
  <2> QED BY <2>1, <2>5
<1>5. Nat \subseteq S
  <2> HIDE DEF S
  <2> QED BY <1>3, <1>4, InductionBySet
<1>6. ASSUME NEW m \in n .. L PROVE Good(m)
  <2>1. m - n \in Nat /\ n + (m - n) = m /\ m <= L
      BY <1>1
  <2>2. m - n \in S
      BY <1>5, <2>1
  <2> HIDE DEF Good
  <2> QED BY <2>1, <2>2
<1> QED BY <1>6

(* So an operand stands where the calls before it end.                     *)
LEMMA Placed ==
    ASSUME NEW all \in Seq(Call), NEW op \in Kinds, NEW n \in 1 .. Len(all), all[n].op = op
    PROVE  Holds(Written(all, op)[Len(all)], Len(Written(all, op)[n - 1]), Operand(all[n]))
<1> DEFINE L == Len(all)
           w == Written(all, op)
           u == Operand(all[n])
<1>1. L \in Nat /\ n \in 0 .. L /\ L \in n .. L
    BY LenProperties
<1>2. /\ Len(w[n - 1]) \in Nat /\ Len(w[n]) = Len(w[n - 1]) + Len(u)
      /\ \A j \in 1 .. Len(u) : w[n][Len(w[n - 1]) + j] = u[j]
    BY WrittenStep DEF Grown, Width
<1>3. Len(w[n]) <= Len(w[L]) /\ \A j \in 1 .. Len(w[n]) : w[L][j] = w[n][j]
    BY <1>1, WrittenGrows
<1>4. Len(u) \in Nat
    BY ElementOfSeq, OperandIs
<1>5. Len(w[L]) \in Nat /\ Len(w[n]) \in Nat
    BY <1>1, WrittenIs, LenProperties
<1> HIDE DEF w, u, L
<1>6. \A j \in 1 .. Len(u) : Len(w[n - 1]) + j \in 1 .. Len(w[n])
    BY <1>2, <1>4
<1>7. \A j \in 1 .. Len(u) : w[L][Len(w[n - 1]) + j] = u[j]
    BY <1>2, <1>3, <1>6
<1>8. Len(w[n - 1]) + Len(u) <= Len(w[L])
    BY <1>2, <1>3
<1> QED BY <1>2, <1>7, <1>8 DEF Holds, w, u, L

LEMMA WrittenSame ==
    ASSUME NEW a \in Seq(Call), NEW b \in Seq(Call), NEW op \in Kinds,
           NEW m \in Nat, m <= Len(a), m <= Len(b), \A j \in 1 .. m : a[j] = b[j]
    PROVE  \A n \in 0 .. m : Written(a, op)[n] = Written(b, op)[n]
<1> DEFINE v == Written(a, op)
           w == Written(b, op)
           S == {n \in Nat : n <= m => v[n] = w[n]}
<1>1. Len(a) \in Nat /\ Len(b) \in Nat
    BY LenProperties
<1>2. v[0] = <<>> /\ w[0] = <<>>
    BY WrittenIs
<1>3. /\ \A n \in 1 .. Len(a) : v[n] = IF a[n].op = op THEN v[n - 1] \o Operand(a[n]) ELSE v[n - 1]
      /\ \A n \in 1 .. Len(b) : w[n] = IF b[n].op = op THEN w[n - 1] \o Operand(b[n]) ELSE w[n - 1]
    BY WrittenIs
<1> HIDE DEF v, w
<1>4. 0 \in S
    BY <1>2
<1>5. ASSUME NEW n \in Nat, n \in S PROVE n + 1 \in S
  <2> SUFFICES ASSUME n + 1 <= m PROVE v[n + 1] = w[n + 1]
      OBVIOUS
  <2>1. /\ n + 1 \in 1 .. Len(a) /\ n + 1 \in 1 .. Len(b) /\ n + 1 \in 1 .. m
        /\ (n + 1) - 1 = n /\ n <= m
      BY <1>1
  <2>2. a[n + 1] = b[n + 1] /\ v[n] = w[n]
      BY <1>5, <2>1
  <2>3. v[n + 1] = IF a[n + 1].op = op THEN v[n] \o Operand(a[n + 1]) ELSE v[n]
      BY <1>3, <2>1
  <2>4. w[n + 1] = IF b[n + 1].op = op THEN w[n] \o Operand(b[n + 1]) ELSE w[n]
      BY <1>3, <2>1
  <2> QED BY <2>2, <2>3, <2>4, Zenon
<1>6. Nat \subseteq S
  <2> HIDE DEF S
  <2> QED BY <1>4, <1>5, InductionBySet
<1>7. \A n \in 0 .. m : v[n] = w[n]
    BY <1>6
<1> QED BY <1>7 DEF v, w

----------------------------------------------------------------------------
(* The calls made, one by one: At(all, n, x, y) says that the first n      *)
(* write x bits and y fields.                                              *)
At(all, n, x, y) == /\ n \in Nat /\ n <= Len(all) /\ x \in Nat /\ y \in Nat
                    /\ Len(Written(all, "bits")[n]) = x
                    /\ Len(Written(all, "field")[n]) = y
AllBits(all)   == Written(all, "bits")[Len(all)]
AllFields(all) == Written(all, "field")[Len(all)]

LEMMA AtStart ==
    ASSUME NEW all \in Seq(Call)
    PROVE  At(all, 0, 0, 0)
<1>1. "bits" \in Kinds /\ "field" \in Kinds
    BY DEF Kinds
<1>2. Written(all, "bits")[0] = <<>> /\ Written(all, "field")[0] = <<>>
    BY <1>1, WrittenIs
<1>3. Len(<<>>) = 0 /\ Len(all) \in Nat
    BY LenProperties
<1> QED BY <1>2, <1>3 DEF At

LEMMA Wrote ==
    ASSUME NEW all \in Seq(Call), NEW m, NEW x, NEW y, At(all, m, x, y),
           NEW n, n = m + 1, n <= Len(all)
    PROVE  /\ all[n] \in Call /\ n \in 1 .. Len(all)
           /\ Width(all[n], "bits") \in Nat /\ Width(all[n], "field") \in Nat
           /\ At(all, n, x + Width(all[n], "bits"), y + Width(all[n], "field"))
           /\ all[n].op = "bits" => Holds(AllBits(all), x, Operand(all[n]))
           /\ all[n].op = "field" => Holds(AllFields(all), y, Operand(all[n]))
<1>1. "bits" \in Kinds /\ "field" \in Kinds
    BY DEF Kinds
<1>2. /\ m \in Nat /\ x \in Nat /\ y \in Nat /\ Len(Written(all, "bits")[m]) = x
      /\ Len(Written(all, "field")[m]) = y
    BY DEF At
<1>3. n \in 1 .. Len(all) /\ n - 1 = m /\ n \in Nat
    BY <1>2, LenProperties
<1>4. all[n] \in Call
    BY <1>3, ElementOfSeq
<1> DEFINE v == Written(all, "bits")
           w == Written(all, "field")
           k == n - 1
<1> HIDE DEF k
<1>5. Grown(v[n], v[k], all[n], "bits") /\ Grown(w[n], w[k], all[n], "field")
    BY <1>1, <1>3, WrittenStep DEF k
<1>6. /\ all[n].op = "bits" => Holds(AllBits(all), Len(v[k]), Operand(all[n]))
      /\ all[n].op = "field" => Holds(AllFields(all), Len(w[k]), Operand(all[n]))
    BY <1>1, <1>3, Placed DEF k, AllBits, AllFields
<1>7. k = m
    BY <1>3 DEF k
<1>8. Len(v[k]) = x /\ Len(w[k]) = y
    BY <1>2, <1>7
<1> HIDE DEF v, w
<1>9. /\ Len(v[n]) = x + Width(all[n], "bits") /\ Width(all[n], "bits") \in Nat
      /\ Len(w[n]) = y + Width(all[n], "field") /\ Width(all[n], "field") \in Nat
    BY <1>5, <1>8 DEF Grown
<1>10. At(all, n, x + Width(all[n], "bits"), y + Width(all[n], "field"))
    BY <1>2, <1>3, <1>9 DEF At, v, w
<1>11. /\ all[n].op = "bits" => Holds(AllBits(all), x, Operand(all[n]))
       /\ all[n].op = "field" => Holds(AllFields(all), y, Operand(all[n]))
    BY <1>6, <1>8
<1> QED BY <1>3, <1>4, <1>9, <1>10, <1>11

LEMMA WroteField ==
    ASSUME NEW all \in Seq(Call), NEW m \in Nat, NEW x \in Nat, NEW y \in Nat, At(all, m, x, y),
           NEW n \in Nat, n = m + 1, n <= Len(all), NEW z \in Nat, z = y + 1,
           NEW a \in ByteString(32), all[n] = Field(a)
    PROVE  At(all, n, x, z) /\ AllFields(all)[z] = Reverse(a)
<1>1. all[n].op = "field" /\ all[n].value = a
    BY DEF Field
<1>2. /\ all[n] \in Call /\ At(all, n, x + Width(all[n], "bits"), y + Width(all[n], "field"))
      /\ Holds(AllFields(all), y, Operand(all[n]))
    BY <1>1, Wrote
<1>3. Operand(all[n]) = <<Reverse(a)>> /\ Len(Operand(all[n])) = 1
    BY <1>1, <1>2, OperandIs
<1>4. Width(all[n], "bits") = 0 /\ Width(all[n], "field") = 1
    BY <1>1, <1>3 DEF Width
<1>5. x \in Nat /\ y \in Nat
    BY DEF At
<1>6. x + Width(all[n], "bits") = x /\ y + Width(all[n], "field") = z
    BY <1>4, <1>5
<1>7. AllFields(all)[y + 1] = Operand(all[n])[1]
  <2>1. 1 \in 1 .. Len(Operand(all[n]))
      BY <1>3
  <2> QED BY <1>2, <2>1 DEF Holds
<1>8. Operand(all[n])[1] = Reverse(a)
    BY <1>3
<1> QED BY <1>2, <1>6, <1>7, <1>8

LEMMA WroteBits ==
    ASSUME NEW all \in Seq(Call), NEW m \in Nat, NEW x \in Nat, NEW y \in Nat, At(all, m, x, y),
           NEW n \in Nat, n = m + 1, n <= Len(all), NEW bits \in Seq(OneBit), all[n] = [op |-> "bits", value |-> bits],
           NEW z \in Nat, z = x + Len(bits)
    PROVE  At(all, n, z, y) /\ Holds(AllBits(all), x, bits)
<1>1. all[n].op = "bits" /\ all[n].value = bits
    OBVIOUS
<1>2. /\ all[n] \in Call /\ At(all, n, x + Width(all[n], "bits"), y + Width(all[n], "field"))
      /\ Holds(AllBits(all), x, Operand(all[n]))
    BY <1>1, Wrote
<1>3. Operand(all[n]) = bits
    BY <1>1, <1>2, OperandIs
<1>4. Width(all[n], "bits") = Len(bits) /\ Width(all[n], "field") = 0
    BY <1>1, <1>3 DEF Width
<1>5. x \in Nat /\ y \in Nat /\ Len(bits) \in Nat
    BY LenProperties DEF At
<1>6. x + Width(all[n], "bits") = z /\ y + Width(all[n], "field") = y
    BY <1>4, <1>5
<1> QED BY <1>2, <1>3, <1>6

LEMMA WroteBit ==
    ASSUME NEW all \in Seq(Call), NEW m \in Nat, NEW x \in Nat, NEW y \in Nat, At(all, m, x, y),
           NEW n \in Nat, n = m + 1, n <= Len(all), NEW b \in OneBit, all[n] = Bit(b),
           NEW z \in Nat, z = x + 1
    PROVE  At(all, n, z, y) /\ AllBits(all)[z] = b
<1> DEFINE bits == <<b>>
<1>1. bits \in Seq(OneBit) /\ Len(bits) = 1 /\ bits[1] = b
    OBVIOUS
<1>2. all[n] = [op |-> "bits", value |-> bits]
    BY DEF Bit
<1> HIDE DEF bits
<1>3. z = x + Len(bits)
    BY <1>1
<1>4. At(all, n, z, y) /\ Holds(AllBits(all), x, bits)
    BY <1>1, <1>2, <1>3, WroteBits
<1>5. AllBits(all)[x + 1] = bits[1]
  <2>1. 1 \in 1 .. Len(bits)
      BY <1>1
  <2> QED BY <1>4, <2>1 DEF Holds
<1> QED BY <1>1, <1>4, <1>5

LEMMA WroteBytes ==
    ASSUME NEW all \in Seq(Call), NEW m \in Nat, NEW x \in Nat, NEW y \in Nat, At(all, m, x, y),
           NEW n \in Nat, n = m + 1, n <= Len(all), NEW k \in Nat, NEW b \in ByteString(k), all[n] = Bytes(b),
           NEW z \in Nat, z = x + 8 * k
    PROVE  At(all, n, z, y) /\ Holds(AllBits(all), x, Bits(b))
<1> DEFINE bits == Bits(b)
<1>1. bits \in Seq(OneBit) /\ Len(bits) = 8 * k
    BY BitsIs
<1>2. all[n] = [op |-> "bits", value |-> bits]
    BY DEF Bytes
<1> HIDE DEF bits
<1>3. z = x + Len(bits)
    BY <1>1
<1>4. At(all, n, z, y) /\ Holds(AllBits(all), x, bits)
    BY <1>1, <1>2, <1>3, WroteBits
<1> QED BY <1>4 DEF bits

LEMMA WroteScalar ==
    ASSUME NEW all \in Seq(Call), NEW m \in Nat, NEW x \in Nat, NEW y \in Nat, At(all, m, x, y),
           NEW n \in Nat, n = m + 1, n <= Len(all), NEW a \in Numbers, all[n] = Scalar(a),
           NEW z \in Nat, z = x + FIELD_BITS
    PROVE  At(all, n, z, y) /\ Holds(AllBits(all), x, ScalarBits(a))
<1> DEFINE bits == ScalarBits(a)
<1>1. bits \in Seq(OneBit) /\ Len(bits) = FIELD_BITS
    BY NumberIs, FieldIs
<1>2. all[n] = [op |-> "bits", value |-> bits]
    BY DEF Scalar
<1> HIDE DEF bits
<1>3. z = x + Len(bits)
    BY <1>1
<1>4. At(all, n, z, y) /\ Holds(AllBits(all), x, bits)
    BY <1>1, <1>2, <1>3, WroteBits
<1> QED BY <1>4 DEF bits

----------------------------------------------------------------------------
(* The calls of the code.                                                  *)
LEMMA SampleIs ==
    ASSUME NEW s \in Samples
    PROVE  /\ s.tx.fee_payer.x \in Numbers /\ s.tx.source.x \in Numbers
           /\ s.tx.receiver.x \in ByteString(32)
           /\ s.tx.fee_payer.is_odd \in OneBit /\ s.tx.source.is_odd \in OneBit
           /\ s.tx.receiver.is_odd \in OneBit
           /\ s.tx.fee \in ByteString(8) /\ s.tx.fee_token \in ByteString(8)
           /\ s.tx.nonce \in ByteString(4) /\ s.tx.valid_until \in ByteString(4)
           /\ s.tx.memo \in ByteString(34) /\ s.tx.tag \in [1 .. 3 -> OneBit]
           /\ s.tx.token_id \in ByteString(8) /\ s.tx.amount \in ByteString(8)
           /\ s.tx.token_locked \in OneBit
           /\ s.pub.x \in Numbers /\ s.pub.y \in Numbers
           /\ s.priv \in Numbers /\ s.rx \in Numbers /\ s.network_id \in OneByte
<1> HIDE DEF Numbers, OneBit, OneByte, ByteString
<1>1. QED
    BY SamplesAssumption

\* Every field element of a sample has its 32 bytes.
LEMMA SampleFields ==
    ASSUME NEW s \in Samples
    PROVE  /\ s.tx.fee_payer.x \in ByteString(32) /\ s.tx.source.x \in ByteString(32)
           /\ s.tx.receiver.x \in ByteString(32)
           /\ s.pub.x \in ByteString(32) /\ s.pub.y \in ByteString(32) /\ s.rx \in ByteString(32)
BY SampleIs, NumberIs

LEMMA CallIs ==
    /\ \A a \in ByteString(32) : Field(a) \in Call
    /\ \A a \in Numbers : Scalar(a) \in Call
    /\ \A b \in OneBit : Bit(b) \in Call
    /\ \A n \in Nat : \A b \in ByteString(n) : Bytes(b) \in Call
<1>1. /\ \A a \in ByteString(32) : Field(a) \in Call
      /\ \A a \in Numbers : Scalar(a) \in Call
  <2>1. \A a \in Numbers : ScalarBits(a) \in Seq(OneBit)
      BY NumberIs, FieldIs
  <2> QED BY <2>1 DEF Call, Field, Scalar
<1>2. ASSUME NEW b \in OneBit PROVE Bit(b) \in Call
  <2>1. <<b>> \in Seq(OneBit)
      OBVIOUS
  <2> QED BY <2>1 DEF Call, Bit
<1>3. ASSUME NEW n \in Nat, NEW b \in ByteString(n) PROVE Bytes(b) \in Call
  <2>1. Bits(b) \in Seq(OneBit)
      BY BitsIs
  <2> QED BY <2>1 DEF Call, Bytes
<1> QED BY <1>1, <1>2, <1>3

\* The calls of a sample when the phase is ph.
CallsIn(s, ph) ==
    transaction_to_roinput(s.tx) \o
    (CASE ph = "tx" -> <<>> [] ph = "derive" -> DeriveCalls(s) [] OTHER -> HashCalls(s))

\* The calls of a transaction, at the front of all.
TxFirst(all, s) ==
    /\ all \in Seq(Call) /\ Len(all) >= 17
    /\ all[1] = Field(s.tx.fee_payer.x) /\ all[2] = Field(s.tx.source.x)
    /\ all[3] = Field(s.tx.receiver.x) /\ all[4] = Bytes(s.tx.fee) /\ all[5] = Bytes(s.tx.fee_token)
    /\ all[6] = Bit(s.tx.fee_payer.is_odd) /\ all[7] = Bytes(s.tx.nonce)
    /\ all[8] = Bytes(s.tx.valid_until) /\ all[9] = Bytes(s.tx.memo) /\ all[10] = Bit(s.tx.tag[1])
    /\ all[11] = Bit(s.tx.tag[2]) /\ all[12] = Bit(s.tx.tag[3]) /\ all[13] = Bit(s.tx.source.is_odd)
    /\ all[14] = Bit(s.tx.receiver.is_odd) /\ all[15] = Bytes(s.tx.token_id)
    /\ all[16] = Bytes(s.tx.amount) /\ all[17] = Bit(s.tx.token_locked)

LEMMA TxCalls ==
    ASSUME NEW s \in Samples
    PROVE  TxFirst(transaction_to_roinput(s.tx), s) /\ Len(transaction_to_roinput(s.tx)) = 17
<1> DEFINE T == transaction_to_roinput(s.tx)
<1>1. /\ Len(T) = 17
      /\ T[1] = Field(s.tx.fee_payer.x) /\ T[2] = Field(s.tx.source.x)
      /\ T[3] = Field(s.tx.receiver.x) /\ T[4] = Bytes(s.tx.fee) /\ T[5] = Bytes(s.tx.fee_token)
      /\ T[6] = Bit(s.tx.fee_payer.is_odd) /\ T[7] = Bytes(s.tx.nonce)
      /\ T[8] = Bytes(s.tx.valid_until) /\ T[9] = Bytes(s.tx.memo) /\ T[10] = Bit(s.tx.tag[1])
      /\ T[11] = Bit(s.tx.tag[2]) /\ T[12] = Bit(s.tx.tag[3]) /\ T[13] = Bit(s.tx.source.is_odd)
      /\ T[14] = Bit(s.tx.receiver.is_odd) /\ T[15] = Bytes(s.tx.token_id)
      /\ T[16] = Bytes(s.tx.amount) /\ T[17] = Bit(s.tx.token_locked)
    BY DEF transaction_to_roinput
<1>2. T \in Seq(Call)
  <2>1. s.tx.tag[1] \in OneBit /\ s.tx.tag[2] \in OneBit /\ s.tx.tag[3] \in OneBit
      BY SampleIs
  <2>2. /\ Field(s.tx.fee_payer.x) \in Call /\ Field(s.tx.source.x) \in Call
        /\ Field(s.tx.receiver.x) \in Call
        /\ Bit(s.tx.fee_payer.is_odd) \in Call /\ Bit(s.tx.source.is_odd) \in Call
        /\ Bit(s.tx.receiver.is_odd) \in Call /\ Bit(s.tx.token_locked) \in Call
        /\ Bit(s.tx.tag[1]) \in Call /\ Bit(s.tx.tag[2]) \in Call /\ Bit(s.tx.tag[3]) \in Call
      BY <2>1, SampleIs, SampleFields, CallIs
  <2>3. Bytes(s.tx.fee) \in Call /\ Bytes(s.tx.fee_token) \in Call /\ Bytes(s.tx.token_id) \in Call
        /\ Bytes(s.tx.amount) \in Call
    <3>1. 8 \in Nat
        OBVIOUS
    <3> QED BY <3>1, SampleIs, CallIs
  <2>4. Bytes(s.tx.nonce) \in Call /\ Bytes(s.tx.valid_until) \in Call
    <3>1. 4 \in Nat
        OBVIOUS
    <3> QED BY <3>1, SampleIs, CallIs
  <2>5. Bytes(s.tx.memo) \in Call
    <3>1. 34 \in Nat
        OBVIOUS
    <3> QED BY <3>1, SampleIs, CallIs
  <2> QED BY <2>2, <2>3, <2>4, <2>5 DEF transaction_to_roinput
<1>3. Len(T) >= 17
    BY <1>1
<1> QED BY <1>1, <1>2, <1>3 DEF TxFirst

LEMMA DeriveCallsAre ==
    ASSUME NEW s \in Samples
    PROVE  /\ DeriveCalls(s) \in Seq(Call) /\ Len(DeriveCalls(s)) = 4
           /\ DeriveCalls(s)[1] = Field(s.pub.x) /\ DeriveCalls(s)[2] = Field(s.pub.y)
           /\ DeriveCalls(s)[3] = Scalar(s.priv) /\ DeriveCalls(s)[4] = Bytes(<<s.network_id>>)
           /\ <<s.network_id>> \in ByteString(1)
<1>1. /\ s.network_id \in OneByte /\ s.pub.x \in ByteString(32) /\ s.pub.y \in ByteString(32)
      /\ s.priv \in Numbers
    BY SampleIs, SampleFields
<1>2. <<s.network_id>> \in ByteString(1) /\ 1 \in Nat
    BY <1>1 DEF ByteString
<1>3. /\ Field(s.pub.x) \in Call /\ Field(s.pub.y) \in Call /\ Scalar(s.priv) \in Call
      /\ Bytes(<<s.network_id>>) \in Call
    BY <1>1, <1>2, CallIs
<1> QED BY <1>2, <1>3 DEF DeriveCalls

LEMMA HashCallsAre ==
    ASSUME NEW s \in Samples
    PROVE  /\ HashCalls(s) \in Seq(Call) /\ Len(HashCalls(s)) = 3
           /\ HashCalls(s)[1] = Field(s.pub.x) /\ HashCalls(s)[2] = Field(s.pub.y)
           /\ HashCalls(s)[3] = Field(s.rx)
<1>1. s.pub.x \in ByteString(32) /\ s.pub.y \in ByteString(32) /\ s.rx \in ByteString(32)
    BY SampleFields
<1>2. Field(s.pub.x) \in Call /\ Field(s.pub.y) \in Call /\ Field(s.rx) \in Call
    BY <1>1, CallIs
<1> QED BY <1>2 DEF HashCalls

Phases == {"tx", "derive", "hash", "signed"}
More(s, ph) == CASE ph = "tx" -> <<>> [] ph = "derive" -> DeriveCalls(s) [] OTHER -> HashCalls(s)

LEMMA CallsInAre ==
    ASSUME NEW s \in Samples, NEW ph \in Phases
    PROVE  /\ More(s, ph) \in Seq(Call) /\ CallsIn(s, ph) \in Seq(Call)
           /\ IsJoined(CallsIn(s, ph), transaction_to_roinput(s.tx), More(s, ph))
           /\ TxFirst(CallsIn(s, ph), s)
           /\ Len(CallsIn(s, ph)) = 17 + Len(More(s, ph)) /\ Len(More(s, ph)) \in Nat
           /\ \A j \in 1 .. Len(More(s, ph)) : CallsIn(s, ph)[17 + j] = More(s, ph)[j]
<1> DEFINE T == transaction_to_roinput(s.tx)
           M == More(s, ph)
           all == CallsIn(s, ph)
<1>1. T \in Seq(Call) /\ Len(T) = 17 /\ TxFirst(T, s)
    BY TxCalls DEF TxFirst
<1>2. M \in Seq(Call)
  <2>1. DeriveCalls(s) \in Seq(Call) /\ HashCalls(s) \in Seq(Call) /\ <<>> \in Seq(Call)
      BY DeriveCallsAre, HashCallsAre, EmptySeq
  <2>2. M = <<>> \/ M = DeriveCalls(s) \/ M = HashCalls(s)
      BY DEF More, Phases
  <2> QED BY <2>1, <2>2
<1>3. all = T \o M
    BY DEF CallsIn, More
<1> HIDE DEF T, M, all
<1>4. all \in Seq(Call) /\ IsJoined(all, T, M)
    BY <1>1, <1>2, <1>3, Joined
<1>5. /\ Len(M) \in Nat /\ Len(all) = 17 + Len(M)
      /\ \A j \in 1 .. 17 : all[j] = T[j]
      /\ \A j \in 1 .. Len(M) : all[17 + j] = M[j]
    BY <1>1, <1>4 DEF IsJoined
<1>6. TxFirst(all, s)
  <2>1. Len(all) >= 17
      BY <1>5
  <2>2. /\ all[1] = T[1] /\ all[2] = T[2] /\ all[3] = T[3] /\ all[4] = T[4] /\ all[5] = T[5]
        /\ all[6] = T[6] /\ all[7] = T[7] /\ all[8] = T[8] /\ all[9] = T[9] /\ all[10] = T[10]
        /\ all[11] = T[11] /\ all[12] = T[12] /\ all[13] = T[13] /\ all[14] = T[14]
        /\ all[15] = T[15] /\ all[16] = T[16] /\ all[17] = T[17]
      BY <1>5
  <2> QED BY <1>1, <1>4, <2>1, <2>2 DEF TxFirst
<1> QED BY <1>2, <1>4, <1>5, <1>6 DEF T, M, all

\* Where each part of a transaction stands.
TxPlaced(all, s) ==
    LET bits   == AllBits(all)
        fields == AllFields(all)
    IN  /\ fields[1] = Reverse(s.tx.fee_payer.x) /\ fields[2] = Reverse(s.tx.source.x)
        /\ fields[3] = Reverse(s.tx.receiver.x)
        /\ Holds(bits, 0, Bits(s.tx.fee)) /\ Holds(bits, 64, Bits(s.tx.fee_token))
        /\ bits[129] = s.tx.fee_payer.is_odd
        /\ Holds(bits, 129, Bits(s.tx.nonce)) /\ Holds(bits, 161, Bits(s.tx.valid_until))
        /\ Holds(bits, 193, Bits(s.tx.memo))
        /\ bits[466] = s.tx.tag[1] /\ bits[467] = s.tx.tag[2] /\ bits[468] = s.tx.tag[3]
        /\ bits[469] = s.tx.source.is_odd /\ bits[470] = s.tx.receiver.is_odd
        /\ Holds(bits, 470, Bits(s.tx.token_id)) /\ Holds(bits, 534, Bits(s.tx.amount))
        /\ bits[599] = s.tx.token_locked

LEMMA TxWritten ==
    ASSUME NEW s \in Samples, NEW all, TxFirst(all, s)
    PROVE  At(all, 17, 599, 3) /\ TxPlaced(all, s)
<1> DEFINE bits == AllBits(all)
           fields == AllFields(all)
<1>1. all \in Seq(Call) /\ Len(all) \in Nat /\ Len(all) >= 17
    BY LenProperties DEF TxFirst
<1>2. s.tx.tag[1] \in OneBit /\ s.tx.tag[2] \in OneBit /\ s.tx.tag[3] \in OneBit
    BY SampleIs
<1>3. 4 \in Nat /\ 8 \in Nat /\ 34 \in Nat
    OBVIOUS
<1>4. At(all, 0, 0, 0)
    BY <1>1, AtStart
<1>5. At(all, 1, 0, 1) /\ fields[1] = Reverse(s.tx.fee_payer.x)
  <2>1. 1 = 0 + 1 /\ 1 <= Len(all) /\ 1 = 0 + 1
        /\ 1 \in Nat /\ 0 \in Nat /\ 1 \in Nat /\ 0 \in Nat
      BY <1>1
  <2>2. s.tx.fee_payer.x \in ByteString(32) /\ all[1] = Field(s.tx.fee_payer.x)
      BY SampleFields DEF TxFirst
  <2> QED BY <1>1, <1>4, <2>1, <2>2, WroteField, SMTT(30)
<1>6. At(all, 2, 0, 2) /\ fields[2] = Reverse(s.tx.source.x)
  <2>1. 2 = 1 + 1 /\ 2 <= Len(all) /\ 2 = 1 + 1
        /\ 2 \in Nat /\ 1 \in Nat /\ 2 \in Nat /\ 1 \in Nat
      BY <1>1
  <2>2. s.tx.source.x \in ByteString(32) /\ all[2] = Field(s.tx.source.x)
      BY SampleFields DEF TxFirst
  <2> DEFINE n == 2
  <2>3. n \in Nat /\ n = 1 + 1 /\ n <= Len(all) /\ all[n] = Field(s.tx.source.x)
      BY <2>1, <2>2
  <2> HIDE DEF n
  <2>4. At(all, n, 0, n) /\ fields[n] = Reverse(s.tx.source.x)
      BY <1>1, <1>5, <2>1, <2>2, <2>3, WroteField
  <2> QED BY <2>4 DEF n
<1>7. At(all, 3, 0, 3) /\ fields[3] = Reverse(s.tx.receiver.x)
  <2>1. 3 = 2 + 1 /\ 3 <= Len(all) /\ 3 = 2 + 1
        /\ 3 \in Nat /\ 2 \in Nat /\ 3 \in Nat /\ 2 \in Nat
      BY <1>1
  <2>2. s.tx.receiver.x \in ByteString(32) /\ all[3] = Field(s.tx.receiver.x)
      BY SampleFields DEF TxFirst
  <2> QED BY <1>1, <1>6, <2>1, <2>2, WroteField, SMTT(30)
<1>8. At(all, 4, 64, 3) /\ Holds(bits, 0, Bits(s.tx.fee))
  <2>1. 4 = 3 + 1 /\ 4 <= Len(all) /\ 64 = 0 + 8 * 8
        /\ 4 \in Nat /\ 3 \in Nat /\ 64 \in Nat /\ 0 \in Nat
      BY <1>1
  <2>2. s.tx.fee \in ByteString(8) /\ all[4] = Bytes(s.tx.fee)
      BY SampleIs DEF TxFirst
  <2> QED BY <1>1, <1>3, <1>7, <2>1, <2>2, WroteBytes, SMTT(30)
<1>9. At(all, 5, 128, 3) /\ Holds(bits, 64, Bits(s.tx.fee_token))
  <2>1. 5 = 4 + 1 /\ 5 <= Len(all) /\ 128 = 64 + 8 * 8
        /\ 5 \in Nat /\ 4 \in Nat /\ 128 \in Nat /\ 64 \in Nat
      BY <1>1
  <2> DEFINE b == s.tx.fee_token
             x == 64
             z == 128
             k == 8
  <2>2. b \in ByteString(k) /\ all[5] = Bytes(b)
      BY SampleIs DEF TxFirst
  <2>3. x \in Nat /\ z \in Nat /\ k \in Nat /\ z = x + 8 * k /\ At(all, 4, x, 3)
      BY <1>8
  <2> HIDE DEF b, x, z, k
  <2>4. At(all, 5, z, 3) /\ Holds(bits, x, Bits(b))
      BY <1>1, <2>1, <2>2, <2>3, WroteBytes, SMTT(30)
  <2> QED BY <2>4 DEF b, x, z
<1>10. At(all, 6, 129, 3) /\ bits[129] = s.tx.fee_payer.is_odd
  <2>1. 6 = 5 + 1 /\ 6 <= Len(all) /\ 129 = 128 + 1
        /\ 6 \in Nat /\ 5 \in Nat /\ 129 \in Nat /\ 128 \in Nat
      BY <1>1
  <2>2. s.tx.fee_payer.is_odd \in OneBit /\ all[6] = Bit(s.tx.fee_payer.is_odd)
      BY <1>2, SampleIs DEF TxFirst
  <2> QED BY <1>1, <1>9, <2>1, <2>2, WroteBit, SMTT(30)
<1>11. At(all, 7, 161, 3) /\ Holds(bits, 129, Bits(s.tx.nonce))
  <2>1. 7 = 6 + 1 /\ 7 <= Len(all) /\ 161 = 129 + 8 * 4
        /\ 7 \in Nat /\ 6 \in Nat /\ 161 \in Nat /\ 129 \in Nat
      BY <1>1
  <2>2. s.tx.nonce \in ByteString(4) /\ all[7] = Bytes(s.tx.nonce)
      BY SampleIs DEF TxFirst
  <2> QED BY <1>1, <1>3, <1>10, <2>1, <2>2, WroteBytes, SMTT(30)
<1>12. At(all, 8, 193, 3) /\ Holds(bits, 161, Bits(s.tx.valid_until))
  <2>1. 8 = 7 + 1 /\ 8 <= Len(all) /\ 193 = 161 + 8 * 4
        /\ 8 \in Nat /\ 7 \in Nat /\ 193 \in Nat /\ 161 \in Nat
      BY <1>1
  <2>2. s.tx.valid_until \in ByteString(4) /\ all[8] = Bytes(s.tx.valid_until)
      BY SampleIs DEF TxFirst
  <2> QED BY <1>1, <1>3, <1>11, <2>1, <2>2, WroteBytes, SMTT(30)
<1>13. At(all, 9, 465, 3) /\ Holds(bits, 193, Bits(s.tx.memo))
  <2>1. 9 = 8 + 1 /\ 9 <= Len(all) /\ 465 = 193 + 8 * 34
        /\ 9 \in Nat /\ 8 \in Nat /\ 465 \in Nat /\ 193 \in Nat
      BY <1>1
  <2>2. s.tx.memo \in ByteString(34) /\ all[9] = Bytes(s.tx.memo)
      BY SampleIs DEF TxFirst
  <2> QED BY <1>1, <1>3, <1>12, <2>1, <2>2, WroteBytes, SMTT(30)
<1>14. At(all, 10, 466, 3) /\ bits[466] = s.tx.tag[1]
  <2>1. 10 = 9 + 1 /\ 10 <= Len(all) /\ 466 = 465 + 1
        /\ 10 \in Nat /\ 9 \in Nat /\ 466 \in Nat /\ 465 \in Nat
      BY <1>1
  <2>2. s.tx.tag[1] \in OneBit /\ all[10] = Bit(s.tx.tag[1])
      BY <1>2, SampleIs DEF TxFirst
  <2> QED BY <1>1, <1>13, <2>1, <2>2, WroteBit, SMTT(30)
<1>15. At(all, 11, 467, 3) /\ bits[467] = s.tx.tag[2]
  <2>1. 11 = 10 + 1 /\ 11 <= Len(all) /\ 467 = 466 + 1
        /\ 11 \in Nat /\ 10 \in Nat /\ 467 \in Nat /\ 466 \in Nat
      BY <1>1
  <2>2. s.tx.tag[2] \in OneBit /\ all[11] = Bit(s.tx.tag[2])
      BY <1>2, SampleIs DEF TxFirst
  <2> QED BY <1>1, <1>14, <2>1, <2>2, WroteBit, SMTT(30)
<1>16. At(all, 12, 468, 3) /\ bits[468] = s.tx.tag[3]
  <2>1. 12 = 11 + 1 /\ 12 <= Len(all) /\ 468 = 467 + 1
        /\ 12 \in Nat /\ 11 \in Nat /\ 468 \in Nat /\ 467 \in Nat
      BY <1>1
  <2>2. s.tx.tag[3] \in OneBit /\ all[12] = Bit(s.tx.tag[3])
      BY <1>2, SampleIs DEF TxFirst
  <2> QED BY <1>1, <1>15, <2>1, <2>2, WroteBit, SMTT(30)
<1>17. At(all, 13, 469, 3) /\ bits[469] = s.tx.source.is_odd
  <2>1. 13 = 12 + 1 /\ 13 <= Len(all) /\ 469 = 468 + 1
        /\ 13 \in Nat /\ 12 \in Nat /\ 469 \in Nat /\ 468 \in Nat
      BY <1>1
  <2>2. s.tx.source.is_odd \in OneBit /\ all[13] = Bit(s.tx.source.is_odd)
      BY <1>2, SampleIs DEF TxFirst
  <2> QED BY <1>1, <1>16, <2>1, <2>2, WroteBit, SMTT(30)
<1>18. At(all, 14, 470, 3) /\ bits[470] = s.tx.receiver.is_odd
  <2>1. 14 = 13 + 1 /\ 14 <= Len(all) /\ 470 = 469 + 1
        /\ 14 \in Nat /\ 13 \in Nat /\ 470 \in Nat /\ 469 \in Nat
      BY <1>1
  <2>2. s.tx.receiver.is_odd \in OneBit /\ all[14] = Bit(s.tx.receiver.is_odd)
      BY <1>2, SampleIs DEF TxFirst
  <2> QED BY <1>1, <1>17, <2>1, <2>2, WroteBit, SMTT(30)
<1>19. At(all, 15, 534, 3) /\ Holds(bits, 470, Bits(s.tx.token_id))
  <2>1. 15 = 14 + 1 /\ 15 <= Len(all) /\ 534 = 470 + 8 * 8
        /\ 15 \in Nat /\ 14 \in Nat /\ 534 \in Nat /\ 470 \in Nat
      BY <1>1
  <2>2. s.tx.token_id \in ByteString(8) /\ all[15] = Bytes(s.tx.token_id)
      BY SampleIs DEF TxFirst
  <2> DEFINE n == 15
             z == 534
  <2>3. n \in Nat /\ n = 14 + 1 /\ n <= Len(all) /\ all[n] = Bytes(s.tx.token_id) /\ z \in Nat /\ z = 470 + 8 * 8
      BY <2>1, <2>2
  <2> HIDE DEF n, z
  <2>4. At(all, n, z, 3) /\ Holds(bits, 470, Bits(s.tx.token_id))
      BY <1>1, <1>3, <1>18, <2>1, <2>2, <2>3, WroteBytes
  <2> QED BY <2>4 DEF n, z
<1>20. At(all, 16, 598, 3) /\ Holds(bits, 534, Bits(s.tx.amount))
  <2>1. 16 = 15 + 1 /\ 16 <= Len(all) /\ 598 = 534 + 8 * 8
        /\ 16 \in Nat /\ 15 \in Nat /\ 598 \in Nat /\ 534 \in Nat
      BY <1>1
  <2>2. s.tx.amount \in ByteString(8) /\ all[16] = Bytes(s.tx.amount)
      BY SampleIs DEF TxFirst
  <2> QED BY <1>1, <1>3, <1>19, <2>1, <2>2, WroteBytes, SMTT(30)
<1>21. At(all, 17, 599, 3) /\ bits[599] = s.tx.token_locked
  <2>1. 17 = 16 + 1 /\ 17 <= Len(all) /\ 599 = 598 + 1
        /\ 17 \in Nat /\ 16 \in Nat /\ 599 \in Nat /\ 598 \in Nat
      BY <1>1
  <2>2. s.tx.token_locked \in OneBit /\ all[17] = Bit(s.tx.token_locked)
      BY <1>2, SampleIs DEF TxFirst
  <2> QED BY <1>1, <1>20, <2>1, <2>2, WroteBit, SMTT(30)
<1> QED BY <1>5, <1>6, <1>7, <1>8, <1>9, <1>10, <1>11, <1>12, <1>13, <1>14, <1>15, <1>16, <1>17, <1>18, <1>19, <1>20, <1>21 DEF TxPlaced

(* Where the layout says, the transaction is read back.                    *)
LEMMA TxUnpacked ==
    ASSUME NEW s \in Samples, NEW all, TxFirst(all, s), NEW f,
           \A k \in 1 .. 3 : f[k] = Reverse(AllFields(all)[k])
    PROVE  Unpacked(f, AllBits(all)) = s.tx
<1> DEFINE bits == AllBits(all)
<1>1. TxPlaced(all, s) /\ At(all, 17, 599, 3)
    BY TxWritten
<1>2. all \in Seq(Call) /\ Len(all) \in Nat /\ 17 <= Len(all)
    BY LenProperties DEF TxFirst
<1>3. bits \in Seq(OneBit) /\ Len(bits) \in Nat /\ Len(bits) >= 599
  <2>1. "bits" \in Kinds /\ Len(all) \in 0 .. Len(all) /\ 17 \in 0 .. Len(all) /\ Len(all) \in 17 .. Len(all)
      BY <1>2 DEF Kinds
  <2>2. Written(all, "bits")[Len(all)] \in Seq(Element("bits"))
      BY <1>2, <2>1, WrittenIs
  <2>3. Len(Written(all, "bits")[17]) <= Len(Written(all, "bits")[Len(all)])
      BY <1>2, <2>1, WrittenGrows
  <2>4. Len(Written(all, "bits")[17]) = 599
      BY <1>1 DEF At
  <2>5. bits \in Seq(OneBit)
      BY <2>2 DEF Element, AllBits
  <2>6. Len(bits) >= 599
      BY <2>3, <2>4 DEF AllBits
  <2> QED BY <2>5, <2>6, LenProperties
<1>4. f[1] = s.tx.fee_payer.x /\ f[2] = s.tx.source.x /\ f[3] = s.tx.receiver.x
  <2>1. /\ Reverse(Reverse(s.tx.fee_payer.x)) = s.tx.fee_payer.x
        /\ Reverse(Reverse(s.tx.source.x)) = s.tx.source.x
        /\ Reverse(Reverse(s.tx.receiver.x)) = s.tx.receiver.x
      BY SampleFields, FieldIs
  <2>2. 1 \in 1 .. 3 /\ 2 \in 1 .. 3 /\ 3 \in 1 .. 3
      OBVIOUS
  <2>3. /\ f[1] = Reverse(AllFields(all)[1]) /\ f[2] = Reverse(AllFields(all)[2])
        /\ f[3] = Reverse(AllFields(all)[3])
      BY <2>2
  <2>4. /\ AllFields(all)[1] = Reverse(s.tx.fee_payer.x) /\ AllFields(all)[2] = Reverse(s.tx.source.x)
        /\ AllFields(all)[3] = Reverse(s.tx.receiver.x)
      BY <1>1 DEF TxPlaced
  <2> QED BY <2>1, <2>3, <2>4
<1>5. /\ BytesAt(bits, 0, 8) = s.tx.fee /\ BytesAt(bits, 64, 8) = s.tx.fee_token
      /\ BytesAt(bits, 129, 4) = s.tx.nonce /\ BytesAt(bits, 161, 4) = s.tx.valid_until
      /\ BytesAt(bits, 193, 34) = s.tx.memo /\ BytesAt(bits, 470, 8) = s.tx.token_id
      /\ BytesAt(bits, 534, 8) = s.tx.amount
  <2>1. 4 \in Nat /\ 8 \in Nat /\ 34 \in Nat
      OBVIOUS
  <2>2. /\ Holds(bits, 0, Bits(s.tx.fee)) /\ Holds(bits, 64, Bits(s.tx.fee_token))
        /\ Holds(bits, 129, Bits(s.tx.nonce)) /\ Holds(bits, 161, Bits(s.tx.valid_until))
        /\ Holds(bits, 193, Bits(s.tx.memo)) /\ Holds(bits, 470, Bits(s.tx.token_id))
        /\ Holds(bits, 534, Bits(s.tx.amount))
      BY <1>1 DEF TxPlaced
  <2> HIDE DEF bits
  <2>3. BytesAt(bits, 0, 8) = s.tx.fee /\ BytesAt(bits, 64, 8) = s.tx.fee_token
        /\ BytesAt(bits, 470, 8) = s.tx.token_id /\ BytesAt(bits, 534, 8) = s.tx.amount
      BY <2>1, <2>2, SampleIs, BytesBack
  <2>4. BytesAt(bits, 129, 4) = s.tx.nonce /\ BytesAt(bits, 161, 4) = s.tx.valid_until
      BY <2>1, <2>2, SampleIs, BytesBack
  <2>5. BytesAt(bits, 193, 34) = s.tx.memo
      BY <2>1, <2>2, SampleIs, BytesBack
  <2> QED BY <2>3, <2>4, <2>5
<1>6. SubSeq(bits, 466, 468) = s.tx.tag
  <2>1. bits[466] = s.tx.tag[1] /\ bits[467] = s.tx.tag[2] /\ bits[468] = s.tx.tag[3]
      BY <1>1 DEF TxPlaced
  <2> DEFINE m == 465
             n == 3
             t == SubSeq(bits, m + 1, m + n)
  <2>2. m \in Nat /\ n \in Nat /\ m + n <= Len(bits) /\ m + 1 = 466 /\ m + n = 468
        /\ m + 2 = 467 /\ m + 3 = 468 /\ n = 3
      BY <1>3
  <2> HIDE DEF m, n, bits
  <2>3. t \in Seq(OneBit) /\ IsSlice(t, bits, m, n)
      BY <1>3, <2>2, Slice
  <2>4. t = SubSeq(bits, 466, 468)
      BY <2>2
  <2> HIDE DEF t
  <2>5. Len(t) = 3 /\ t[1] = bits[466] /\ t[2] = bits[467] /\ t[3] = bits[468]
      BY <2>2, <2>3 DEF IsSlice
  <2>6. t \in [1 .. 3 -> OneBit]
    <3>1. t \in [1 .. Len(t) -> OneBit]
        BY <2>3, LenProperties
    <3> QED BY <2>5, <3>1
  <2>7. s.tx.tag \in [1 .. 3 -> OneBit]
      BY SampleIs
  <2>8. ASSUME NEW k \in 1 .. 3 PROVE t[k] = s.tx.tag[k]
      BY <2>1, <2>5
  <2>9. t = s.tx.tag
      BY <2>6, <2>7, <2>8
  <2> QED BY <2>4, <2>9
<1>7. /\ bits[129] = s.tx.fee_payer.is_odd /\ bits[469] = s.tx.source.is_odd
      /\ bits[470] = s.tx.receiver.is_odd /\ bits[599] = s.tx.token_locked
    BY <1>1 DEF TxPlaced
<1> HIDE DEF bits
<1>8. Unpacked(f, bits) =
        [fee_payer |-> [x |-> s.tx.fee_payer.x, is_odd |-> s.tx.fee_payer.is_odd],
         source |-> [x |-> s.tx.source.x, is_odd |-> s.tx.source.is_odd],
         receiver |-> [x |-> s.tx.receiver.x, is_odd |-> s.tx.receiver.is_odd],
         fee |-> s.tx.fee, fee_token |-> s.tx.fee_token, nonce |-> s.tx.nonce,
         valid_until |-> s.tx.valid_until, memo |-> s.tx.memo, tag |-> s.tx.tag,
         token_id |-> s.tx.token_id, amount |-> s.tx.amount, token_locked |-> s.tx.token_locked]
    BY <1>4, <1>5, <1>6, <1>7, ZenonT(60) DEF Unpacked
<1>9. s.tx =
        [fee_payer |-> [x |-> s.tx.fee_payer.x, is_odd |-> s.tx.fee_payer.is_odd],
         source |-> [x |-> s.tx.source.x, is_odd |-> s.tx.source.is_odd],
         receiver |-> [x |-> s.tx.receiver.x, is_odd |-> s.tx.receiver.is_odd],
         fee |-> s.tx.fee, fee_token |-> s.tx.fee_token, nonce |-> s.tx.nonce,
         valid_until |-> s.tx.valid_until, memo |-> s.tx.memo, tag |-> s.tx.tag,
         token_id |-> s.tx.token_id, amount |-> s.tx.amount, token_locked |-> s.tx.token_locked]
    BY SamplesAssumption
<1> QED BY <1>8, <1>9, Zenon DEF bits

\* What message_derive and message_hash add.
DerivePlaced(all, s) ==
    /\ AllFields(all)[4] = Reverse(s.pub.x) /\ AllFields(all)[5] = Reverse(s.pub.y)
    /\ Holds(AllBits(all), 599, ScalarBits(s.priv))
    /\ Holds(AllBits(all), 854, Bits(<<s.network_id>>))
HashPlaced(all, s) ==
    /\ AllFields(all)[4] = Reverse(s.pub.x) /\ AllFields(all)[5] = Reverse(s.pub.y)
    /\ AllFields(all)[6] = Reverse(s.rx)

LEMMA KeyWritten ==
    ASSUME NEW all \in Seq(Call), Len(all) >= 20, At(all, 17, 599, 3),
           NEW a \in ByteString(32), NEW b \in ByteString(32), all[18] = Field(a), all[19] = Field(b)
    PROVE  At(all, 19, 599, 5) /\ AllFields(all)[4] = Reverse(a) /\ AllFields(all)[5] = Reverse(b)
<1> DEFINE l == 17
           m == 18
           n == 19
           x == 599
           u == 3
           v == 4
           w == 5
<1>1. /\ l \in Nat /\ m \in Nat /\ n \in Nat /\ x \in Nat /\ u \in Nat /\ v \in Nat /\ w \in Nat
      /\ m = l + 1 /\ n = m + 1 /\ v = u + 1 /\ w = v + 1 /\ m <= Len(all) /\ n <= Len(all)
  <2>1. Len(all) \in Nat
      BY LenProperties
  <2> QED BY <2>1
<1>2. At(all, l, x, u) /\ all[m] = Field(a) /\ all[n] = Field(b)
    OBVIOUS
<1> HIDE DEF l, m, n, x, u, v, w
<1>3. At(all, m, x, v) /\ AllFields(all)[v] = Reverse(a)
    BY <1>1, <1>2, WroteField, SMTT(30)
<1>4. At(all, n, x, w) /\ AllFields(all)[w] = Reverse(b)
    BY <1>1, <1>2, <1>3, WroteField, SMTT(30)
<1> QED BY <1>3, <1>4 DEF n, x, v, w

LEMMA PointWritten ==
    ASSUME NEW all \in Seq(Call), Len(all) >= 20, At(all, 19, 599, 5),
           NEW a \in ByteString(32), all[20] = Field(a)
    PROVE  At(all, 20, 599, 6) /\ AllFields(all)[6] = Reverse(a)
<1> DEFINE m == 19
           n == 20
           x == 599
           u == 5
           v == 6
<1>1. /\ m \in Nat /\ n \in Nat /\ x \in Nat /\ u \in Nat /\ v \in Nat
      /\ n = m + 1 /\ v = u + 1 /\ n <= Len(all)
  <2>1. Len(all) \in Nat
      BY LenProperties
  <2> QED BY <2>1
<1>2. At(all, m, x, u) /\ all[n] = Field(a)
    OBVIOUS
<1> HIDE DEF m, n, x, u, v
<1>3. At(all, n, x, v) /\ AllFields(all)[v] = Reverse(a)
    BY <1>1, <1>2, WroteField, SMTT(30)
<1> QED BY <1>3 DEF n, x, v

LEMMA DeriveWritten ==
    ASSUME NEW s \in Samples, NEW all, all = CallsIn(s, "derive")
    PROVE  /\ TxFirst(all, s) /\ Len(all) = 21
           /\ At(all, 21, 862, 5) /\ DerivePlaced(all, s)
<1> DEFINE ph == "derive"
           M == More(s, ph)
<1>1. ph \in Phases /\ M = DeriveCalls(s)
    BY DEF Phases, More
<1>2. /\ Len(M) = 4 /\ M[1] = Field(s.pub.x) /\ M[2] = Field(s.pub.y)
      /\ M[3] = Scalar(s.priv) /\ M[4] = Bytes(<<s.network_id>>) /\ <<s.network_id>> \in ByteString(1)
    BY <1>1, DeriveCallsAre
<1>3. /\ TxFirst(all, s) /\ Len(all) = 17 + Len(M)
      /\ \A j \in 1 .. Len(M) : all[17 + j] = M[j]
    BY <1>1, CallsInAre DEF ph
<1> HIDE DEF M
<1>4. all \in Seq(Call) /\ Len(all) = 21
    BY <1>2, <1>3 DEF TxFirst
<1>5. all[18] = M[1] /\ all[19] = M[2] /\ all[20] = M[3] /\ all[21] = M[4]
  <2>1. /\ 1 \in 1 .. Len(M) /\ 2 \in 1 .. Len(M) /\ 3 \in 1 .. Len(M) /\ 4 \in 1 .. Len(M)
        /\ 17 + 1 = 18 /\ 17 + 2 = 19 /\ 17 + 3 = 20 /\ 17 + 4 = 21
      BY <1>2
  <2> QED BY <1>3, <2>1
<1>6. s.pub.x \in ByteString(32) /\ s.pub.y \in ByteString(32) /\ s.priv \in Numbers
    BY SampleIs, SampleFields
<1>7. At(all, 17, 599, 3)
    BY <1>3, TxWritten
<1>8. /\ At(all, 19, 599, 5)
      /\ AllFields(all)[4] = Reverse(s.pub.x) /\ AllFields(all)[5] = Reverse(s.pub.y)
  <2> DEFINE a == s.pub.x
             b == s.pub.y
  <2>1. /\ Len(all) >= 20 /\ all[18] = Field(a) /\ all[19] = Field(b)
        /\ a \in ByteString(32) /\ b \in ByteString(32)
      BY <1>2, <1>4, <1>5, <1>6
  <2> HIDE DEF a, b
  <2>2. At(all, 19, 599, 5) /\ AllFields(all)[4] = Reverse(a) /\ AllFields(all)[5] = Reverse(b)
      BY <1>4, <1>7, <2>1, KeyWritten, SMTT(30)
  <2> QED BY <2>2 DEF a, b
<1>9. At(all, 20, 854, 5) /\ Holds(AllBits(all), 599, ScalarBits(s.priv))
  <2>1. /\ 19 \in Nat /\ 20 \in Nat /\ 20 = 19 + 1 /\ 20 <= Len(all) /\ 599 \in Nat /\ 5 \in Nat
        /\ 854 \in Nat /\ 854 = 599 + FIELD_BITS /\ all[20] = Scalar(s.priv)
      BY <1>2, <1>4, <1>5 DEF FIELD_BITS
  <2> QED BY <1>4, <1>6, <1>8, <2>1, WroteScalar, SMTT(30)
<1>10. At(all, 21, 862, 5) /\ Holds(AllBits(all), 854, Bits(<<s.network_id>>))
  <2> DEFINE b == <<s.network_id>>
  <2>1. /\ 20 \in Nat /\ 21 \in Nat /\ 21 = 20 + 1 /\ 21 <= Len(all) /\ 854 \in Nat /\ 5 \in Nat
        /\ 862 \in Nat /\ 1 \in Nat /\ 862 = 854 + 8 * 1 /\ all[21] = Bytes(b) /\ b \in ByteString(1)
      BY <1>2, <1>4, <1>5
  <2> HIDE DEF b
  <2>2. At(all, 21, 862, 5) /\ Holds(AllBits(all), 854, Bits(b))
      BY <1>4, <1>9, <2>1, WroteBytes, SMTT(30)
  <2> QED BY <2>2 DEF b
<1> QED BY <1>3, <1>4, <1>8, <1>9, <1>10 DEF DerivePlaced

LEMMA HashParts ==
    ASSUME NEW s \in Samples, NEW all, TxFirst(all, s), Len(all) >= 20, all[18] = Field(s.pub.x),
           all[19] = Field(s.pub.y), all[20] = Field(s.rx)
    PROVE  At(all, 20, 599, 6) /\ HashPlaced(all, s)
<1> DEFINE a == s.pub.x
           b == s.pub.y
           c == s.rx
<1>1. /\ all \in Seq(Call) /\ Len(all) >= 20
      /\ all[18] = Field(a) /\ all[19] = Field(b) /\ all[20] = Field(c)
    BY DEF TxFirst
<1>2. a \in ByteString(32) /\ b \in ByteString(32) /\ c \in ByteString(32)
    BY SampleFields
<1>3. At(all, 17, 599, 3)
    BY TxWritten
<1> HIDE DEF a, b, c
<1>4. At(all, 19, 599, 5) /\ AllFields(all)[4] = Reverse(a) /\ AllFields(all)[5] = Reverse(b)
    BY <1>1, <1>2, <1>3, KeyWritten, SMTT(30)
<1>5. At(all, 20, 599, 6) /\ AllFields(all)[6] = Reverse(c)
    BY <1>1, <1>2, <1>4, PointWritten, SMTT(30)
<1> QED BY <1>4, <1>5 DEF HashPlaced, a, b, c

LEMMA HashWritten ==
    ASSUME NEW s \in Samples, NEW ph \in {"hash", "signed"}, NEW all, all = CallsIn(s, ph)
    PROVE  /\ TxFirst(all, s) /\ Len(all) = 20
           /\ At(all, 20, 599, 6) /\ HashPlaced(all, s)
<1> DEFINE M == More(s, ph)
<1>1. ph \in Phases /\ M = HashCalls(s)
    BY DEF Phases, More
<1>2. Len(M) = 3 /\ M[1] = Field(s.pub.x) /\ M[2] = Field(s.pub.y) /\ M[3] = Field(s.rx)
    BY <1>1, HashCallsAre
<1>3. /\ TxFirst(all, s) /\ Len(all) = 17 + Len(M)
      /\ \A j \in 1 .. Len(M) : all[17 + j] = M[j]
    BY <1>1, CallsInAre
<1> HIDE DEF M
<1>4. Len(all) = 20 /\ Len(all) >= 20
    BY <1>2, <1>3
<1>5. all[18] = M[1] /\ all[19] = M[2] /\ all[20] = M[3]
  <2>1. /\ 1 \in 1 .. Len(M) /\ 2 \in 1 .. Len(M) /\ 3 \in 1 .. Len(M)
        /\ 17 + 1 = 18 /\ 17 + 2 = 19 /\ 17 + 3 = 20
      BY <1>2
  <2> QED BY <1>3, <2>1
<1>6. all[18] = Field(s.pub.x) /\ all[19] = Field(s.pub.y) /\ all[20] = Field(s.rx)
    BY <1>2, <1>5
<1>7. At(all, 20, 599, 6) /\ HashPlaced(all, s)
    BY <1>3, <1>4, <1>6, HashParts, Zenon
<1> QED BY <1>3, <1>4, <1>7

(* All that a phase writes has room in the input its caller declared.      *)
Capacity(ph) == CASE ph = "tx" -> [fields |-> 3, bits |-> 75]
                  [] ph = "derive" -> [fields |-> 5, bits |-> 108]
                  [] OTHER -> [fields |-> 6, bits |-> 75]

LEMMA Room ==
    ASSUME NEW s \in Samples, NEW ph \in Phases
    PROVE  LET all == CallsIn(s, ph)
           IN  /\ Len(AllFields(all)) \in Nat /\ Len(AllBits(all)) \in Nat
               /\ Capacity(ph).fields \in Nat /\ Capacity(ph).bits \in Nat
               /\ Len(AllFields(all)) <= Capacity(ph).fields
               /\ Len(AllBits(all)) <= Capacity(ph).bits * 8
<1> DEFINE all == CallsIn(s, ph)
<1>1. CASE ph = "tx"
  <2>1. TxFirst(all, s) /\ Len(all) = 17
    <3> DEFINE M == More(s, ph)
    <3>1. M = <<>>
        BY <1>1 DEF More
    <3>2. TxFirst(all, s) /\ Len(all) = 17 + Len(M)
        BY CallsInAre
    <3> HIDE DEF M, all
    <3>3. Len(M) = 0
        BY <3>1
    <3> QED BY <3>2, <3>3
  <2>2. At(all, 17, 599, 3)
      BY <2>1, TxWritten
  <2>3. Len(AllFields(all)) = 3 /\ Len(AllBits(all)) = 599
      BY <2>1, <2>2 DEF At, AllFields, AllBits
  <2>4. Capacity(ph).fields = 3 /\ Capacity(ph).bits = 75
      BY <1>1 DEF Capacity
  <2> HIDE DEF all
  <2> QED BY <2>3, <2>4 DEF all
<1>2. CASE ph = "derive"
  <2>1. all = CallsIn(s, "derive")
      BY <1>2
  <2> HIDE DEF all
  <2>2. Len(all) = 21 /\ At(all, 21, 862, 5)
      BY <2>1, DeriveWritten
  <2>3. Len(AllFields(all)) = 5 /\ Len(AllBits(all)) = 862
      BY <2>2 DEF At, AllFields, AllBits
  <2>4. Capacity(ph).fields = 5 /\ Capacity(ph).bits = 108
      BY <1>2 DEF Capacity
  <2> QED BY <2>3, <2>4 DEF all
<1>3. CASE ph \in {"hash", "signed"}
  <2>1. Len(all) = 20 /\ At(all, 20, 599, 6)
      BY <1>3, HashWritten
  <2>2. Len(AllFields(all)) = 6 /\ Len(AllBits(all)) = 599
      BY <2>1 DEF At, AllFields, AllBits
  <2>3. Capacity(ph).fields = 6 /\ Capacity(ph).bits = 75
      BY <1>3 DEF Capacity
  <2> HIDE DEF all
  <2> QED BY <2>2, <2>3 DEF all
<1> QED BY <1>1, <1>2, <1>3 DEF Phases

----------------------------------------------------------------------------
(* The steps.                                                              *)
IsInput(in) ==
    in \in [fields : Seq(ByteString(32)), bits : Seq(OneBit), fields_capacity : Nat, bits_capacity : Nat]
\* in holds the operands of the first n calls of all, in the buffers of ph.
Filled(in, all, n, ph) ==
    /\ IsInput(in)
    /\ in.fields_capacity = Capacity(ph).fields /\ in.bits_capacity = Capacity(ph).bits
    /\ in.bits = Written(all, "bits")[n]
    /\ in.fields = Written(all, "field")[n]

LEMMA KindsAre == /\ "bits" \in Kinds /\ "field" \in Kinds
                  /\ Element("bits") = OneBit /\ Element("field") = ByteString(32)
BY DEF Kinds, Element

LEMMA AddWrites ==
    ASSUME NEW s \in Samples, NEW ph \in Phases, NEW all, all = CallsIn(s, ph),
           NEW n \in Nat, NEW m, m = n + 1, m <= Len(all), NEW in, Filled(in, all, n, ph)
    PROVE  Filled(Add(in, all[m]), all, m, ph)
<1> DEFINE v == Written(all, "bits")
           w == Written(all, "field")
           c == all[m]
           u == Operand(c)
           out == Add(in, c)
           L == Len(all)
<1>1. all \in Seq(Call) /\ Len(all) \in Nat /\ m \in Nat
    BY CallsInAre, LenProperties
<1>2. m \in 1 .. L /\ m \in 0 .. L /\ n \in 0 .. L /\ m - 1 = n /\ L \in m .. L
    BY <1>1
<1>3. c \in Call
    BY <1>1, <1>2, ElementOfSeq
<1>4. /\ v[m] = IF c.op = "bits" THEN v[n] \o u ELSE v[n]
      /\ w[m] = IF c.op = "field" THEN w[n] \o u ELSE w[n]
  <2>1. \A j \in 1 .. L :
          /\ v[j] = IF all[j].op = "bits" THEN v[j - 1] \o Operand(all[j]) ELSE v[j - 1]
          /\ w[j] = IF all[j].op = "field" THEN w[j - 1] \o Operand(all[j]) ELSE w[j - 1]
      BY <1>1, KindsAre, WrittenIs
  <2> HIDE DEF v, w, L
  <2>2. /\ v[m] = IF all[m].op = "bits" THEN v[m - 1] \o Operand(all[m]) ELSE v[m - 1]
        /\ w[m] = IF all[m].op = "field" THEN w[m - 1] \o Operand(all[m]) ELSE w[m - 1]
      BY <1>2, <2>1, Zenon
  <2>3. m - 1 = n
      BY <1>2
  <2> QED BY <2>2, <2>3, Zenon
<1>5. /\ v[n] \in Seq(OneBit) /\ v[m] \in Seq(OneBit)
      /\ w[n] \in Seq(ByteString(32)) /\ w[m] \in Seq(ByteString(32))
    BY <1>1, <1>2, KindsAre, WrittenIs
<1>6. Len(v[m]) <= Len(v[L]) /\ Len(w[m]) <= Len(w[L])
    BY <1>1, <1>2, KindsAre, WrittenGrows
<1>7. /\ Len(w[L]) \in Nat /\ Len(v[L]) \in Nat
      /\ Capacity(ph).fields \in Nat /\ Capacity(ph).bits \in Nat
      /\ Len(w[L]) <= Capacity(ph).fields /\ Len(v[L]) <= Capacity(ph).bits * 8
    BY Room DEF AllBits, AllFields
<1>8. /\ c.op \in Kinds
      /\ c.op = "field" => /\ c.value \in ByteString(32) /\ u = <<Reverse(c.value)>> /\ Len(u) = 1
                           /\ u \in Seq(ByteString(32))
      /\ c.op = "bits" => c.value \in Seq(OneBit) /\ u = c.value
    BY <1>3, OperandIs, KindsAre
<1>9. /\ IsInput(in) /\ in.bits = v[n] /\ in.fields = w[n]
      /\ in.fields_capacity = Capacity(ph).fields /\ in.bits_capacity = Capacity(ph).bits
    BY DEF Filled
<1>10. Len(v[n]) \in Nat /\ Len(w[n]) \in Nat /\ Len(v[m]) \in Nat /\ Len(w[m]) \in Nat
    BY <1>5, LenProperties
<1> HIDE DEF v, w, c, u, L
<1>11. CASE c.op = "field"
  <2>1. w[m] = w[n] \o u /\ v[m] = v[n]
      BY <1>4, <1>11
  <2>2. IsJoined(w[m], w[n], u)
      BY <1>5, <1>8, <1>11, <2>1, Joined
  <2>3. Len(w[m]) = Len(w[n]) + 1
      BY <1>8, <1>11, <2>2 DEF IsJoined
  <2>4. ~(in.fields_capacity - Len(in.fields) < 1)
      BY <1>6, <1>7, <1>9, <1>10, <2>3
  <2> DEFINE z == Reverse(c.value)
  <2>5. z \in ByteString(32)
      BY <1>8, <1>11, FieldIs
  <2>6. out = [in EXCEPT !.fields = Append(@, z)]
      BY <1>11, <2>4 DEF Add, roinput_add_field
  <2> HIDE DEF z, out
  <2>7. Append(w[n], z) = w[m]
    <3>1. Append(w[n], z) = w[n] \o <<z>>
        BY <1>5, <2>5, AppendIsConcat
    <3>2. u = <<z>>
        BY <1>8, <1>11 DEF z
    <3> QED BY <2>1, <3>1, <3>2
  <2>8. out = [in EXCEPT !.fields = w[m]]
      BY <1>9, <2>6, <2>7
  <2>9. /\ IsInput(out) /\ out.fields = w[m] /\ out.bits = v[m]
        /\ out.fields_capacity = in.fields_capacity /\ out.bits_capacity = in.bits_capacity
      BY <1>5, <1>9, <2>1, <2>8 DEF IsInput
  <2> QED BY <1>9, <2>9 DEF Filled, v, w, out, c
<1>12. CASE c.op = "bits"
  <2>1. v[m] = v[n] \o u /\ w[m] = w[n] /\ u \in Seq(OneBit)
      BY <1>4, <1>8, <1>12
  <2>2. IsJoined(v[m], v[n], u)
      BY <1>5, <2>1, Joined
  <2>3. Len(v[m]) = Len(v[n]) + Len(u) /\ Len(u) \in Nat
      BY <2>2 DEF IsJoined
  <2>4. ~(in.bits_capacity * 8 - Len(in.bits) < Len(u))
      BY <1>6, <1>7, <1>9, <1>10, <2>3, SMTT(30)
  <2>5. out = [in EXCEPT !.bits = @ \o u]
      BY <1>8, <1>12, <2>4 DEF Add, AddBits
  <2> HIDE DEF out
  <2>6. out = [in EXCEPT !.bits = v[m]]
      BY <1>9, <2>1, <2>5
  <2>7. /\ IsInput(out) /\ out.fields = w[m] /\ out.bits = v[m]
        /\ out.fields_capacity = in.fields_capacity /\ out.bits_capacity = in.bits_capacity
      BY <1>5, <1>9, <2>1, <2>6 DEF IsInput
  <2> QED BY <1>9, <2>7 DEF Filled, v, w, out, c
<1> QED BY <1>8, <1>11, <1>12 DEF Kinds

(* The copy of a finished transaction holds the first 17 calls of ph.      *)
LEMMA CopyWrites ==
    ASSUME NEW s \in Samples, NEW ph \in {"derive", "hash"}, NEW in,
           Filled(in, CallsIn(s, "tx"), 17, "tx"), NEW f \in Nat, NEW b \in Nat,
           3 + f = Capacity(ph).fields, 75 + b = Capacity(ph).bits
    PROVE  Filled(Copy(in, f, b), CallsIn(s, ph), 17, ph)
<1> DEFINE old == CallsIn(s, "tx")
           new == CallsIn(s, ph)
           T == transaction_to_roinput(s.tx)
           out == Copy(in, f, b)
<1>1. "tx" \in Phases /\ ph \in Phases
    BY DEF Phases
<1>2. old \in Seq(Call) /\ new \in Seq(Call) /\ Len(T) = 17
      /\ IsJoined(old, T, More(s, "tx")) /\ IsJoined(new, T, More(s, ph))
      /\ Len(old) \in Nat /\ Len(new) \in Nat /\ Len(old) >= 17 /\ Len(new) >= 17
    BY <1>1, CallsInAre, TxCalls, LenProperties DEF TxFirst
<1> HIDE DEF old, new, T
<1>3. \A j \in 1 .. 17 : old[j] = new[j]
    BY <1>2 DEF IsJoined
<1>4. \A op \in Kinds : Written(old, op)[17] = Written(new, op)[17]
  <2>1. 17 \in Nat /\ 17 \in 0 .. 17 /\ 17 <= Len(old) /\ 17 <= Len(new)
      BY <1>2
  <2> QED BY <1>2, <1>3, <2>1, WrittenSame
<1>5. Filled(in, old, 17, "tx")
    BY DEF old
<1>6. Capacity("tx").fields = 3 /\ Capacity("tx").bits = 75
    BY DEF Capacity
<1>7. /\ IsInput(in) /\ in.fields_capacity = 3 /\ in.bits_capacity = 75
      /\ in.bits = Written(old, "bits")[17] /\ in.fields = Written(old, "field")[17]
    BY <1>5, <1>6 DEF Filled
<1>8. /\ IsInput(out) /\ out.fields_capacity = 3 + f /\ out.bits_capacity = 75 + b
      /\ out.bits = in.bits /\ out.fields = in.fields
  <2> DEFINE x == in.fields_capacity + f
             y == in.bits_capacity + b
  <2>1. x \in Nat /\ y \in Nat /\ x = 3 + f /\ y = 75 + b
      BY <1>7
  <2>2. out = [in EXCEPT !.fields_capacity = x, !.bits_capacity = y]
      BY DEF Copy
  <2> HIDE DEF x, y, out
  <2>3. /\ IsInput(out) /\ out.fields_capacity = x /\ out.bits_capacity = y
        /\ out.bits = in.bits /\ out.fields = in.fields
      BY <1>7, <2>1, <2>2 DEF IsInput
  <2> QED BY <2>1, <2>3
<1> HIDE DEF out
<1>9. out.bits = Written(new, "bits")[17] /\ out.fields = Written(new, "field")[17]
    BY <1>4, <1>7, <1>8, KindsAre
<1> QED BY <1>8, <1>9 DEF Filled, new, out

----------------------------------------------------------------------------
(* The inductive invariant.  Its first part says how far the input has     *)
(* come, the second what the two hashes start from, the third what became  *)
(* of the inputs of phases that are over.                                  *)
Progress ==
    \E n \in 0 .. Len(CallsIn(sample, phase)) :
        /\ calls \in Seq(Call)
        /\ IsSlice(calls, CallsIn(sample, phase), n, Len(CallsIn(sample, phase)) - n)
        /\ Filled(input, CallsIn(sample, phase), n, phase)
TransactionKept == phase # "tx" => Filled(base, CallsIn(sample, "tx"), 17, "tx")

Complete(s, ph) == [fields |-> AllFields(CallsIn(s, ph)), bits |-> AllBits(CallsIn(s, ph))]
Outputs ==
    /\ phase \in {"tx", "derive"} => derived = <<>>
    /\ phase \in {"hash", "signed"} => derived = roinput_to_bytes(Complete(sample, "derive"))
    /\ phase # "signed" => hashed = <<>>
    /\ phase = "signed" => calls = <<>> /\ hashed = roinput_to_fields(Complete(sample, "hash"), HashLen)

ROInv == sample \in Samples /\ phase \in Phases /\ Progress /\ TransactionKept /\ Outputs

LEMMA WhenComplete ==
    ASSUME sample \in Samples, phase \in Phases, Progress, calls = <<>>
    PROVE  /\ Filled(input, CallsIn(sample, phase), Len(CallsIn(sample, phase)), phase)
           /\ input.fields = Complete(sample, phase).fields
           /\ input.bits = Complete(sample, phase).bits
<1> DEFINE all == CallsIn(sample, phase)
           L == Len(all)
<1>1. L \in Nat
    BY CallsInAre, LenProperties
<1>2. PICK n \in 0 .. L : IsSlice(calls, all, n, L - n) /\ Filled(input, all, n, phase)
    BY DEF Progress
<1>3. Len(calls) = 0 /\ Len(calls) = L - n
    BY <1>2 DEF IsSlice
<1>4. n = L
    BY <1>1, <1>3
<1> HIDE DEF all, L
<1>5. Filled(input, all, L, phase)
    BY <1>2, <1>4
<1> QED BY <1>5 DEF Filled, Complete, AllFields, AllBits, all, L

LEMMA InitROInv == Init => ROInv
<1> SUFFICES ASSUME Init PROVE ROInv
    OBVIOUS
<1>1. /\ sample \in Samples /\ phase = "tx" /\ calls = transaction_to_roinput(sample.tx)
      /\ input = Empty(3, TX_BITSTRINGS_BYTES) /\ derived = <<>> /\ hashed = <<>>
    BY DEF Init
<1>2. phase \in Phases
    BY <1>1 DEF Phases
<1> DEFINE all == CallsIn(sample, phase)
           L == Len(all)
<1>3. /\ all \in Seq(Call) /\ IsJoined(all, calls, More(sample, phase))
      /\ calls \in Seq(Call) /\ Len(calls) = 17
    BY <1>1, <1>2, CallsInAre, TxCalls DEF TxFirst
<1>4. L = 17
  <2>1. More(sample, phase) = <<>>
      BY <1>1 DEF More
  <2>2. Len(More(sample, phase)) = 0
      BY <2>1
  <2> QED BY <1>3, <2>2 DEF IsJoined
<1>5. IsSlice(calls, all, 0, L - 0)
  <2>1. \A j \in 1 .. 17 : calls[j] = all[0 + j]
    <3> DEFINE M == More(sample, phase)
    <3>1. IsJoined(all, calls, M) /\ Len(calls) = 17
        BY <1>3
    <3> HIDE DEF all, M
    <3>2. \A j \in 1 .. Len(calls) : all[j] = calls[j]
        BY <3>1, Zenon DEF IsJoined
    <3>3. \A j \in 1 .. 17 : 0 + j = j
        OBVIOUS
    <3> QED BY <3>1, <3>2, <3>3
  <2> HIDE DEF L, all
  <2> QED BY <1>3, <1>4, <2>1 DEF IsSlice
<1>6. Filled(input, all, 0, phase)
  <2>1. Written(all, "bits")[0] = <<>> /\ Written(all, "field")[0] = <<>>
      BY <1>3, KindsAre, WrittenIs
  <2>2. Capacity(phase).fields = 3 /\ Capacity(phase).bits = 75
      BY <1>1 DEF Capacity
  <2>3. input = [fields |-> <<>>, bits |-> <<>>, fields_capacity |-> 3, bits_capacity |-> 75]
      BY <1>1 DEF Empty, TX_BITSTRINGS_BYTES
  <2>4. <<>> \in Seq(ByteString(32)) /\ <<>> \in Seq(OneBit)
      BY EmptySeq
  <2> HIDE DEF all
  <2>5. IsInput(input)
      BY <2>3, <2>4 DEF IsInput
  <2> QED BY <2>1, <2>2, <2>3, <2>5 DEF Filled
<1>7. Progress
  <2>1. 0 \in 0 .. L
      BY <1>4
  <2> QED BY <1>3, <1>5, <1>6, <2>1 DEF Progress
<1>8. TransactionKept /\ Outputs
    BY <1>1 DEF TransactionKept, Outputs
<1> QED BY <1>1, <1>2, <1>7, <1>8 DEF ROInv

LEMMA NextROInv == ROInv /\ [Next]_vars => ROInv'
<1> SUFFICES ASSUME ROInv, [Next]_vars PROVE ROInv'
    OBVIOUS
<1>1. sample \in Samples /\ phase \in Phases /\ Progress /\ TransactionKept /\ Outputs
    BY DEF ROInv
<1>2. CASE AddNext
  <2>1. /\ calls # <<>> /\ input' = Add(input, Head(calls)) /\ calls' = Tail(calls)
        /\ sample' = sample /\ phase' = phase /\ base' = base /\ derived' = derived /\ hashed' = hashed
      BY <1>2 DEF AddNext
  <2> DEFINE s == sample
             ph == phase
             all == CallsIn(s, ph)
             L == Len(all)
  <2>2. L \in Nat
      BY <1>1, CallsInAre, LenProperties
  <2>3. PICK n \in 0 .. L : calls \in Seq(Call) /\ IsSlice(calls, all, n, L - n) /\ Filled(input, all, n, ph)
      BY <1>1 DEF Progress
  <2> DEFINE m == n + 1
             c == Head(calls)
  <2>4. Len(calls) = L - n /\ \A j \in 1 .. L - n : calls[j] = all[n + j]
      BY <2>3 DEF IsSlice
  <2>5. Len(calls) \in Nat /\ Len(calls) # 0
      BY <2>1, <2>3, LenProperties, EmptySeq
  <2>6. n \in Nat /\ m = n + 1 /\ m <= L /\ m \in 0 .. L
      BY <2>2, <2>4, <2>5
  <2>7. c = all[m]
    <3>1. 1 \in 1 .. L - n
        BY <2>2, <2>4, <2>5
    <3>2. calls[1] = all[n + 1]
        BY <2>4, <3>1
    <3>3. Head(calls) = calls[1]
        BY <2>1, <2>3
    <3> QED BY <3>2, <3>3
  <2>8. Tail(calls) \in Seq(Call) /\ IsSlice(Tail(calls), all, m, L - m)
    <3> DEFINE t == Tail(calls)
    <3>1. t \in Seq(Call) /\ Len(t) = Len(calls) - 1 /\ \A j \in 1 .. Len(t) : t[j] = calls[j + 1]
        BY <2>1, <2>3, HeadTailProperties
    <3> HIDE DEF t, all, L
    <3>2. Len(t) = L - m
        BY <2>2, <2>4, <2>6, <3>1
    <3>3. ASSUME NEW j \in 1 .. L - m PROVE t[j] = all[m + j]
      <4>1. j + 1 \in 1 .. L - n /\ n + (j + 1) = m + j
          BY <2>2, <2>6
      <4>2. calls[j + 1] = all[n + (j + 1)]
          BY <2>4, <4>1
      <4>3. t[j] = calls[j + 1]
          BY <3>1, <3>2
      <4> QED BY <4>1, <4>2, <4>3
    <3>4. IsSlice(t, all, m, L - m)
        BY <3>2, <3>3 DEF IsSlice
    <3> QED BY <3>1, <3>4 DEF t
  <2>9. Filled(Add(input, all[m]), all, m, ph)
    <3> HIDE DEF all, m
    <3>1. all = CallsIn(s, ph) /\ s \in Samples /\ ph \in Phases
        BY <1>1 DEF all
    <3>2. m = n + 1 /\ m <= Len(all) /\ n \in Nat
        BY <2>6
    <3> HIDE DEF s, ph
    <3> QED BY <2>3, <3>1, <3>2, AddWrites
  <2>10. Filled(input', all, m, ph)
      BY <2>1, <2>7, <2>9
  <2>11. Progress'
    <3>1. /\ calls' \in Seq(Call) /\ IsSlice(calls', CallsIn(sample', phase'), m, Len(CallsIn(sample', phase')) - m)
          /\ Filled(input', CallsIn(sample', phase'), m, phase')
          /\ m \in 0 .. Len(CallsIn(sample', phase'))
        BY <2>1, <2>6, <2>8, <2>10
    <3> QED BY <3>1 DEF Progress
  <2>12. TransactionKept'
      BY <1>1, <2>1 DEF TransactionKept
  <2>13. Outputs'
      BY <1>1, <2>1 DEF Outputs
  <2> QED BY <1>1, <2>1, <2>11, <2>12, <2>13 DEF ROInv
<1>3. CASE StartDerive
  <2>1. /\ phase = "tx" /\ calls = <<>> /\ phase' = "derive" /\ base' = input
        /\ input' = Copy(input, 2, SCALAR_BYTES + 1) /\ calls' = DeriveCalls(sample)
        /\ sample' = sample /\ derived' = derived /\ hashed' = hashed
      BY <1>3 DEF StartDerive
  <2> DEFINE s == sample
             ph == "derive"
             all == CallsIn(s, ph)
             L == Len(all)
  <2>2. ph \in Phases /\ ph \in {"derive", "hash"} /\ s \in Samples
      BY <1>1 DEF Phases
  <2>3. Filled(input, CallsIn(s, "tx"), 17, "tx")
    <3>1. Filled(input, CallsIn(s, "tx"), Len(CallsIn(s, "tx")), "tx")
        BY <1>1, <2>1, WhenComplete
    <3>2. Len(CallsIn(s, "tx")) = 17
      <4> DEFINE tx == "tx"
                 M == More(s, tx)
      <4>1. tx \in Phases /\ M = <<>>
          BY DEF Phases, More
      <4>2. Len(CallsIn(s, tx)) = 17 + Len(M)
          BY <1>1, <4>1, CallsInAre
      <4> HIDE DEF M
      <4>3. Len(M) = 0
          BY <4>1
      <4> QED BY <4>2, <4>3
    <3> QED BY <3>1, <3>2
  <2>4. Filled(input', all, 17, ph)
    <3> DEFINE f == 2
               b == SCALAR_BYTES + 1
    <3>1. f \in Nat /\ b \in Nat /\ 3 + f = Capacity(ph).fields /\ 75 + b = Capacity(ph).bits
        BY DEF Capacity, SCALAR_BYTES
    <3>2. input' = Copy(input, f, b)
        BY <2>1
    <3> HIDE DEF f, b, ph, s
    <3>3. Filled(Copy(input, f, b), CallsIn(s, ph), 17, ph)
        BY <2>2, <2>3, <3>1, CopyWrites
    <3> QED BY <3>2, <3>3
  <2>5. L = 21 /\ calls' \in Seq(Call) /\ IsSlice(calls', all, 17, L - 17)
    <3>1. More(s, ph) = DeriveCalls(s)
        BY DEF More
    <3> DEFINE M == More(s, ph)
    <3>2. M \in Seq(Call) /\ Len(M) = 4
        BY <2>2, <3>1, DeriveCallsAre
    <3>3. L = 17 + Len(M) /\ \A j \in 1 .. Len(M) : all[17 + j] = M[j]
        BY <2>2, CallsInAre
    <3>4. calls' = M
        BY <2>1, <3>1
    <3> HIDE DEF M, L, all
    <3>5. L = 21 /\ L - 17 = 4
        BY <3>2, <3>3
    <3> QED BY <3>2, <3>3, <3>4, <3>5 DEF IsSlice
  <2>6. Progress'
    <3>1. 17 \in 0 .. L
      <4> HIDE DEF L
      <4> QED BY <2>5
    <3>2. all = CallsIn(sample', phase') /\ ph = phase'
        BY <2>1
    <3> QED BY <2>4, <2>5, <3>1, <3>2 DEF Progress
  <2>7. TransactionKept'
      BY <2>1, <2>3 DEF TransactionKept
  <2>8. Outputs'
      BY <1>1, <2>1 DEF Outputs
  <2> QED BY <1>1, <2>1, <2>2, <2>6, <2>7, <2>8 DEF ROInv
<1>4. CASE StartHash
  <2>1. /\ phase = "derive" /\ calls = <<>> /\ phase' = "hash"
        /\ derived' = IF SizeInBytes(input) <= DeriveBytes THEN roinput_to_bytes(input) ELSE <<>>
        /\ input' = Copy(base, 3, 0) /\ calls' = HashCalls(sample)
        /\ sample' = sample /\ base' = base /\ hashed' = hashed
      BY <1>4 DEF StartHash
  <2> DEFINE s == sample
             ph == "hash"
             all == CallsIn(s, ph)
             L == Len(all)
  <2>2. ph \in Phases /\ ph \in {"derive", "hash"} /\ s \in Samples
      BY <1>1 DEF Phases
  <2>3. Filled(base, CallsIn(s, "tx"), 17, "tx")
      BY <1>1, <2>1 DEF TransactionKept
  <2>4. Filled(input', all, 17, ph)
    <3> DEFINE f == 3
               b == 0
    <3>1. f \in Nat /\ b \in Nat /\ 3 + f = Capacity(ph).fields /\ 75 + b = Capacity(ph).bits
        BY DEF Capacity
    <3>2. input' = Copy(base, f, b)
        BY <2>1
    <3> HIDE DEF f, b, ph, s
    <3>3. Filled(Copy(base, f, b), CallsIn(s, ph), 17, ph)
        BY <2>2, <2>3, <3>1, CopyWrites
    <3> QED BY <3>2, <3>3
  <2>5. L = 20 /\ calls' \in Seq(Call) /\ IsSlice(calls', all, 17, L - 17)
    <3>1. More(s, ph) = HashCalls(s)
        BY DEF More
    <3> DEFINE M == More(s, ph)
    <3>2. M \in Seq(Call) /\ Len(M) = 3
        BY <2>2, <3>1, HashCallsAre
    <3>3. L = 17 + Len(M) /\ \A j \in 1 .. Len(M) : all[17 + j] = M[j]
        BY <2>2, CallsInAre
    <3>4. calls' = M
        BY <2>1, <3>1
    <3> HIDE DEF M, L, all
    <3>5. L = 20 /\ L - 17 = 3
        BY <3>2, <3>3
    <3> QED BY <3>2, <3>3, <3>4, <3>5 DEF IsSlice
  <2>6. Progress'
    <3>1. 17 \in 0 .. L
      <4> HIDE DEF L
      <4> QED BY <2>5
    <3>2. all = CallsIn(sample', phase') /\ ph = phase'
        BY <2>1
    <3> QED BY <2>4, <2>5, <3>1, <3>2 DEF Progress
  <2>7. TransactionKept'
      BY <2>1, <2>3 DEF TransactionKept
  <2>8. derived' = roinput_to_bytes(Complete(s, "derive"))
    <3>1. /\ input.fields = Complete(s, "derive").fields /\ input.bits = Complete(s, "derive").bits
        BY <1>1, <2>1, WhenComplete
    <3>2. roinput_to_bytes(input) = roinput_to_bytes(Complete(s, "derive"))
        BY <3>1, Zenon DEF roinput_to_bytes
    <3>3. SizeInBytes(input) <= DeriveBytes
      <4> DEFINE d == CallsIn(s, "derive")
      <4>1. Len(d) = 21 /\ At(d, 21, 862, 5)
          BY <1>1, DeriveWritten
      <4>2. Len(input.fields) = 5 /\ Len(input.bits) = 862
        <5>1. input.fields = AllFields(d) /\ input.bits = AllBits(d)
            BY <3>1 DEF Complete
        <5> HIDE DEF d
        <5> QED BY <4>1, <5>1 DEF AllFields, AllBits, At
      <4>3. (862 + 255 * 5 + 7) \div 8 = 268
          BY SMT
      <4> QED BY <4>2, <4>3 DEF SizeInBytes, DeriveBytes, FIELD_BITS
    <3> QED BY <2>1, <3>2, <3>3
  <2>9. Outputs'
      BY <1>1, <2>1, <2>8 DEF Outputs
  <2> QED BY <1>1, <2>1, <2>2, <2>6, <2>7, <2>9 DEF ROInv
<1>5. CASE Finish
  <2>1. /\ phase = "hash" /\ calls = <<>> /\ phase' = "signed" /\ hashed' = roinput_to_fields(input, HashLen)
        /\ sample' = sample /\ calls' = calls /\ base' = base /\ input' = input /\ derived' = derived
      BY <1>5 DEF Finish
  <2>2. CallsIn(sample, "hash") = CallsIn(sample, "signed") /\ Capacity("hash") = Capacity("signed")
      BY DEF CallsIn, Capacity
  <2>3. Progress'
    <3>1. \A n : Filled(input, CallsIn(sample, "hash"), n, "hash")
                    => Filled(input, CallsIn(sample, "signed"), n, "signed")
        BY <2>2 DEF Filled
    <3> QED BY <1>1, <2>1, <2>2, <3>1 DEF Progress
  <2>4. TransactionKept'
      BY <1>1, <2>1 DEF TransactionKept
  <2>5. hashed' = roinput_to_fields(Complete(sample, "hash"), HashLen)
    <3>1. /\ input.fields = Complete(sample, "hash").fields /\ input.bits = Complete(sample, "hash").bits
        BY <1>1, <2>1, WhenComplete
    <3> QED BY <2>1, <3>1, Zenon DEF roinput_to_fields
  <2>6. Outputs'
      BY <1>1, <2>1, <2>5 DEF Outputs
  <2> QED BY <1>1, <2>1, <2>3, <2>4, <2>6 DEF ROInv, Phases
<1>6. CASE UNCHANGED vars
    BY <1>1, <1>6 DEF vars, ROInv, Progress, TransactionKept, Outputs
<1> QED BY <1>2, <1>3, <1>4, <1>5, <1>6 DEF Next

LEMMA ROInvAlways == Spec => []ROInv
BY InitROInv, NextROInv, PTL DEF Spec

----------------------------------------------------------------------------
(* What the two hashes are given.                                          *)
LEMMA CompleteIs ==
    ASSUME NEW s \in Samples, NEW ph \in Phases
    PROVE  /\ Complete(s, ph).fields \in Seq(ByteString(32))
           /\ Complete(s, ph).bits \in Seq(OneBit)
<1> DEFINE all == CallsIn(s, ph)
<1>1. all \in Seq(Call)
    BY CallsInAre
<1>2. Len(all) \in 0 .. Len(all)
    BY <1>1, LenProperties
<1> HIDE DEF all
<1>3. AllFields(all) \in Seq(ByteString(32)) /\ AllBits(all) \in Seq(OneBit)
    BY <1>1, <1>2, KindsAre, WrittenIs DEF AllFields, AllBits
<1> QED BY <1>3 DEF Complete, all

FieldsEnd == 5 * FIELD_BITS
DerivedBits == LayoutBits + FIELD_BITS + 8
PacksFields(d, fields) ==
    \A k \in 1 .. 5, j \in 1 .. FIELD_BITS : d[(k - 1) * FIELD_BITS + j] = Bits(fields[k])[j]
PacksBits(d, bits) == \A j \in 1 .. DerivedBits : d[FieldsEnd + j] = bits[j]

LEMMA LengthsAre == FIELD_BITS = 255 /\ LayoutBits = 599 /\ FieldsEnd = 1275 /\ DerivedBits = 862
BY DEF FIELD_BITS, LayoutBits, FieldsEnd, DerivedBits

LEMMA DerivedIs ==
    ASSUME NEW s \in Samples, NEW d, d = roinput_to_bytes(Complete(s, "derive"))
    PROVE  LET all == CallsIn(s, "derive")
           IN  /\ d \in Seq(OneBit) /\ Len(d) = FieldsEnd + DerivedBits
               /\ PacksFields(d, AllFields(all)) /\ PacksBits(d, AllBits(all))
               /\ AllBits(all) \in Seq(OneBit) /\ Len(AllBits(all)) = DerivedBits
<1> DEFINE all == CallsIn(s, "derive")
           fs == AllFields(all)
           bs == AllBits(all)
           packed == [k \in 1 .. FIELD_BITS * Len(fs) |->
                         Bits(fs[(k - 1) \div FIELD_BITS + 1])[((k - 1) % FIELD_BITS) + 1]]
<1>1. fs \in Seq(ByteString(32)) /\ bs \in Seq(OneBit)
  <2>1. "derive" \in Phases
      BY DEF Phases
  <2>2. Complete(s, "derive").fields = fs /\ Complete(s, "derive").bits = bs
      BY DEF Complete
  <2> QED BY <2>1, <2>2, CompleteIs
<1>2. Len(fs) = 5 /\ Len(bs) = 862
  <2>1. Len(all) = 21 /\ At(all, 21, 862, 5)
      BY DeriveWritten
  <2> HIDE DEF all
  <2> QED BY <2>1 DEF At, AllFields, AllBits
<1>3. d = packed \o bs
    BY Zenon DEF roinput_to_bytes, Complete
<1> HIDE DEF all, fs, bs
<1>4. \A k \in 1 .. 5 : Bits(fs[k]) \in Seq(OneBit) /\ Len(Bits(fs[k])) = 256
  <2> SUFFICES ASSUME NEW k \in 1 .. 5
               PROVE  Bits(fs[k]) \in Seq(OneBit) /\ Len(Bits(fs[k])) = 256
      OBVIOUS
  <2> DEFINE n == 32
             b == fs[k]
  <2>1. k \in 1 .. Len(fs)
      BY <1>2
  <2>2. n \in Nat /\ 8 * n = 256 /\ b \in ByteString(n)
      BY <1>1, <2>1, ElementOfSeq
  <2> HIDE DEF n, b
  <2>3. Bits(b) \in Seq(OneBit) /\ Len(Bits(b)) = 8 * n
      BY <2>2, BitsIs
  <2> QED BY <2>2, <2>3 DEF b
<1> DEFINE N == 1275
           Q(k) == (k - 1) \div 255 + 1
           R(k) == ((k - 1) % 255) + 1
<1>5. packed = [k \in 1 .. N |-> Bits(fs[Q(k)])[R(k)]] /\ N \in Nat
    BY <1>2 DEF FIELD_BITS
<1>6. \A k \in 1 .. N : Q(k) \in 1 .. 5 /\ R(k) \in 1 .. 255
    BY SMT
<1>7. \A k \in 1 .. 5, j \in 1 .. 255 :
         (k - 1) * 255 + j \in 1 .. N /\ Q((k - 1) * 255 + j) = k /\ R((k - 1) * 255 + j) = j
    BY SMT
<1> HIDE DEF Q, R, packed, N
<1>8. \A k \in 1 .. N : Bits(fs[Q(k)])[R(k)] \in OneBit
  <2> SUFFICES ASSUME NEW k \in 1 .. N PROVE Bits(fs[Q(k)])[R(k)] \in OneBit
      OBVIOUS
  <2>1. Q(k) \in 1 .. 5 /\ R(k) \in 1 .. 255
      BY <1>6
  <2> DEFINE b == Bits(fs[Q(k)])
  <2>2. b \in Seq(OneBit) /\ Len(b) = 256
      BY <1>4, <2>1
  <2>3. R(k) \in 1 .. Len(b)
      BY <2>1, <2>2
  <2> DEFINE r == R(k)
  <2>4. r \in 1 .. Len(b)
      BY <2>3
  <2> HIDE DEF b, r
  <2>5. b \in Seq(OneBit)
      BY <2>2
  <2>6. b[r] \in OneBit
      BY <2>4, <2>5, ElementOfSeq
  <2> QED BY <2>6 DEF b, r
<1>9. packed \in Seq(OneBit) /\ Len(packed) = N
  <2>1. packed \in [1 .. N -> OneBit]
      BY <1>5, <1>8
  <2> QED BY <1>5, <2>1, StringIs
<1>10. d \in Seq(OneBit) /\ IsJoined(d, packed, bs)
    BY <1>1, <1>3, <1>9, Joined
<1>11. /\ Len(d) = 2137
       /\ \A j \in 1 .. 862 : d[1275 + j] = bs[j]
       /\ \A j \in 1 .. N : d[j] = packed[j]
  <2>1. Len(packed) = N /\ N = 1275 /\ Len(bs) = 862
      BY <1>2, <1>9 DEF N
  <2>2. Len(d) = Len(packed) + Len(bs)
      BY <1>10, Zenon DEF IsJoined
  <2>3. \A j \in 1 .. Len(packed) : d[j] = packed[j]
      BY <1>10, Zenon DEF IsJoined
  <2>4. \A j \in 1 .. Len(bs) : d[Len(packed) + j] = bs[j]
      BY <1>10, Zenon DEF IsJoined
  <2>5. Len(d) = 2137
      BY <2>1, <2>2
  <2>6. \A j \in 1 .. N : d[j] = packed[j]
    <3>1. Len(packed) = N
        BY <2>1
    <3> QED BY <2>3, <3>1, Zenon
  <2>7. \A j \in 1 .. 862 : d[1275 + j] = bs[j]
    <3> SUFFICES ASSUME NEW j \in 1 .. 862 PROVE d[1275 + j] = bs[j]
        OBVIOUS
    <3>1. j \in 1 .. Len(bs)
        BY <2>1
    <3>2. d[Len(packed) + j] = bs[j]
        BY <2>4, <3>1, Zenon
    <3>3. Len(packed) = 1275
        BY <2>1
    <3> QED BY <3>2, <3>3
  <2> QED BY <2>5, <2>6, <2>7
<1>12. ASSUME NEW k \in 1 .. 5, NEW j \in 1 .. 255
       PROVE  d[(k - 1) * 255 + j] = Bits(fs[k])[j]
  <2> DEFINE i == (k - 1) * 255 + j
  <2>1. i \in 1 .. N /\ Q(i) = k /\ R(i) = j
      BY <1>7
  <2> HIDE DEF i
  <2>2. d[i] = packed[i]
    <3>1. \A n \in 1 .. N : d[n] = packed[n]
        BY <1>11
    <3> QED BY <2>1, <3>1, Zenon
  <2>3. packed[i] = Bits(fs[Q(i)])[R(i)]
      BY <1>5, <2>1, Zenon
  <2>4. d[i] = Bits(fs[k])[j]
      BY <2>1, <2>2, <2>3, Zenon
  <2> QED BY <2>4 DEF i
<1>13. PacksFields(d, fs)
    BY <1>12 DEF PacksFields, FIELD_BITS
<1>14. PacksBits(d, bs)
  <2>1. \A j \in 1 .. 862 : d[1275 + j] = bs[j]
      BY <1>11
  <2>2. FieldsEnd = 1275 /\ DerivedBits = 862
      BY DEF FieldsEnd, DerivedBits, LayoutBits, FIELD_BITS
  <2> QED BY <2>1, <2>2 DEF PacksBits
<1>15. Len(d) = FieldsEnd + DerivedBits
  <2>1. Len(d) = 2137
      BY <1>11
  <2> QED BY <2>1, LengthsAre
<1>16. Len(bs) = DerivedBits
    BY <1>2, LengthsAre
<1> QED BY <1>1, <1>10, <1>13, <1>14, <1>15, <1>16, Zenon DEF fs, bs, all

LEMMA HashedIs ==
    ASSUME NEW s \in Samples, NEW h, h = roinput_to_fields(Complete(s, "hash"), HashLen)
    PROVE  LET all == CallsIn(s, "hash")
           IN  /\ Len(h) = 9 /\ \A k \in 1 .. 6 : h[k] = Reverse(AllFields(all)[k])
               /\ h[7] \o h[8] \o h[9] = AllBits(all)
               /\ h \in Seq(Seq(OneBit) \union ByteString(32))
<1> DEFINE all == CallsIn(s, "hash")
           fs == AllFields(all)
           bs == AllBits(all)
           E == Seq(OneBit) \union ByteString(32)
           packed == [k \in 1 .. Len(fs) |-> Reverse(fs[k])]
           chunks == Chunks(bs)
           C1 == SubSeq(bs, 1, 254)
           C2 == SubSeq(bs, 255, 508)
           C3 == SubSeq(bs, 509, 599)
<1>1. fs \in Seq(ByteString(32)) /\ bs \in Seq(OneBit)
  <2>1. "hash" \in Phases
      BY DEF Phases
  <2>2. Complete(s, "hash").fields = fs /\ Complete(s, "hash").bits = bs
      BY DEF Complete
  <2> QED BY <2>1, <2>2, CompleteIs
<1>2. Len(fs) = 6 /\ Len(bs) = 599
  <2>1. Len(all) = 20 /\ At(all, 20, 599, 6)
      BY HashWritten
  <2> HIDE DEF all
  <2> QED BY <2>1 DEF At, AllFields, AllBits
<1>3. h = packed \o chunks
  <2>1. Complete(s, "hash").fields = fs /\ Complete(s, "hash").bits = bs
      BY DEF Complete
  <2>2. ~(HashLen < Len(fs))
    <3> HIDE DEF fs
    <3> QED BY <1>2 DEF HashLen, HashFields, FIELD_BYTES
  <2> HIDE DEF fs, bs
  <2> QED BY <2>1, <2>2 DEF roinput_to_fields
<1> HIDE DEF all, fs, bs, E
<1>4. packed \in Seq(E) /\ Len(packed) = 6 /\ \A k \in 1 .. 6 : packed[k] = Reverse(fs[k])
  <2> DEFINE n == Len(fs)
  <2>1. n \in Nat /\ n = 6
      BY <1>2
  <2>2. \A k \in 1 .. n : Reverse(fs[k]) \in E
    <3> SUFFICES ASSUME NEW k \in 1 .. n PROVE Reverse(fs[k]) \in E
        OBVIOUS
    <3> DEFINE b == fs[k]
               w == 32
    <3>1. b \in ByteString(32)
        BY <1>1, <2>1, ElementOfSeq
    <3>2. w \in Nat /\ b \in [1 .. w -> OneByte]
        BY <3>1 DEF ByteString
    <3> HIDE DEF b, w
    <3>3. Reverse(b) \in [1 .. w -> OneByte]
        BY <3>2, ReverseIs
    <3>4. Reverse(b) \in ByteString(32)
        BY <3>3 DEF ByteString, w
    <3> QED BY <3>4 DEF E, b
  <2>3. packed = [k \in 1 .. n |-> Reverse(fs[k])]
      OBVIOUS
  <2> HIDE DEF n, packed
  <2>4. packed \in [1 .. n -> E]
      BY <2>2, <2>3
  <2>5. packed \in Seq(E) /\ Len(packed) = n
      BY <2>1, <2>4, StringIs
  <2> QED BY <2>1, <2>3, <2>5
<1>5. /\ chunks \in Seq(E) /\ Len(chunks) = 3
      /\ chunks[1] = C1 /\ chunks[2] = C2 /\ chunks[3] = C3
  <2>1. (599 + 254 - 1) \div 254 = 3
      BY SMT
  <2>2. chunks = [k \in 1 .. 3 |-> Chunk(bs, k)]
      BY <1>2, <2>1 DEF Chunks, MAX_CHUNK_SIZE, FIELD_BITS
  <2>3. /\ Chunk(bs, 1) = SubSeq(bs, 1, 254) /\ Chunk(bs, 2) = SubSeq(bs, 255, 508)
        /\ Chunk(bs, 3) = SubSeq(bs, 509, 599)
      BY <1>2 DEF Chunk, MAX_CHUNK_SIZE, FIELD_BITS
  <2> HIDE DEF chunks
  <2>4. ASSUME NEW k \in 1 .. 3 PROVE Chunk(bs, k) \in Seq(OneBit)
    <3> DEFINE a == (k - 1) * 254 + 1
               b == IF k * 254 < 599 THEN k * 254 ELSE 599
    <3>1. a \in Int /\ b \in Int /\ a >= 1 /\ b <= 599
        BY SMT
    <3>2. Chunk(bs, k) = SubSeq(bs, a, b)
        BY <1>2 DEF Chunk, MAX_CHUNK_SIZE, FIELD_BITS
    <3> HIDE DEF a, b
    <3>3. \A i \in a .. b : bs[i] \in OneBit
      <4> SUFFICES ASSUME NEW i \in a .. b PROVE bs[i] \in OneBit
          OBVIOUS
      <4>1. i \in 1 .. Len(bs)
          BY <1>2, <3>1
      <4> QED BY <1>1, <4>1, ElementOfSeq
    <3>4. SubSeq(bs, a, b) \in Seq(OneBit)
        BY <3>1, <3>3, SubSeqProperties
    <3> QED BY <3>2, <3>4
  <2>5. chunks \in Seq(E) /\ Len(chunks) = 3
    <3> DEFINE n == 3
    <3>1. \A k \in 1 .. n : Chunk(bs, k) \in E
        BY <2>4 DEF E
    <3>2. chunks = [k \in 1 .. n |-> Chunk(bs, k)] /\ n \in Nat
        BY <2>2
    <3> HIDE DEF n
    <3>3. chunks \in [1 .. n -> E]
        BY <3>1, <3>2
    <3>4. chunks \in Seq(E) /\ Len(chunks) = n
        BY <3>2, <3>3, StringIs
    <3> QED BY <3>4 DEF n
  <2>6. chunks[1] = Chunk(bs, 1) /\ chunks[2] = Chunk(bs, 2) /\ chunks[3] = Chunk(bs, 3)
      BY <2>2
  <2>7. Chunk(bs, 1) = C1 /\ Chunk(bs, 2) = C2 /\ Chunk(bs, 3) = C3
      BY <2>3
  <2> HIDE DEF C1, C2, C3
  <2> QED BY <2>5, <2>6, <2>7
<1> HIDE DEF packed, chunks, C1, C2, C3
<1>6. h \in Seq(E) /\ IsJoined(h, packed, chunks)
    BY <1>3, <1>4, <1>5, Joined
<1>7. Len(h) = 9 /\ \A k \in 1 .. 6 : h[k] = packed[k]
    BY <1>4, <1>5, <1>6 DEF IsJoined
<1>8. h[7] = chunks[1] /\ h[8] = chunks[2] /\ h[9] = chunks[3]
  <2>1. /\ 1 \in 1 .. Len(chunks) /\ 2 \in 1 .. Len(chunks) /\ 3 \in 1 .. Len(chunks)
        /\ Len(packed) + 1 = 7 /\ Len(packed) + 2 = 8 /\ Len(packed) + 3 = 9
      BY <1>4, <1>5
  <2>2. /\ h[Len(packed) + 1] = chunks[1] /\ h[Len(packed) + 2] = chunks[2]
        /\ h[Len(packed) + 3] = chunks[3]
      BY <1>6, <2>1 DEF IsJoined
  <2> QED BY <2>1, <2>2
<1>9. h[7] \o h[8] \o h[9] = bs
  <2> DEFINE o == 1
             a == 254
             p == a + 1
             b == 508
             q == b + 1
             c == 599
  <2>1. /\ o \in 1 .. Len(bs) + 1 /\ a \in o - 1 .. Len(bs) /\ b \in a .. Len(bs)
        /\ b \in o - 1 .. Len(bs) /\ c \in b .. Len(bs) /\ c = Len(bs) /\ o = 1
        /\ p = a + 1 /\ q = b + 1 /\ a = 254 /\ p = 255 /\ b = 508 /\ q = 509 /\ c = 599
      BY <1>2
  <2> HIDE DEF o, a, b, c, p, q
  <2>2. h[7] = SubSeq(bs, o, a) /\ h[8] = SubSeq(bs, p, b) /\ h[9] = SubSeq(bs, q, c)
    <3>1. h[7] = C1 /\ h[8] = C2 /\ h[9] = C3
        BY <1>5, <1>8, Zenon
    <3>2. o = 1 /\ a = 254 /\ p = 255 /\ b = 508 /\ q = 509 /\ c = 599
        BY <2>1
    <3>3. C1 = SubSeq(bs, o, a) /\ C2 = SubSeq(bs, p, b) /\ C3 = SubSeq(bs, q, c)
        BY <3>2 DEF C1, C2, C3
    <3> QED BY <3>1, <3>3, Zenon
  <2>3. SubSeq(bs, o, a) \o SubSeq(bs, p, b) = SubSeq(bs, o, b)
      BY <1>1, <2>1, ConcatAdjacentSubSeq
  <2>4. SubSeq(bs, o, b) \o SubSeq(bs, q, c) = SubSeq(bs, o, c)
      BY <1>1, <2>1, ConcatAdjacentSubSeq
  <2>5. SubSeq(bs, o, c) = bs
      BY <1>1, <2>1, SubSeqFull
  <2> QED BY <2>2, <2>3, <2>4, <2>5
<1>10. \A k \in 1 .. 6 : h[k] = Reverse(fs[k])
    BY <1>4, <1>7
<1> QED BY <1>6, <1>7, <1>9, <1>10 DEF fs, bs, all, E

----------------------------------------------------------------------------
LEMMA CallsOfIs == CallsOf(phase) = CallsIn(sample, phase)
BY DEF CallsOf, CallsIn

(* No roinput_add_ call is ever refused for want of room, whatever is      *)
(* signed: a complete input holds every operand, in the order of the calls *)
(* (the functions of random_oracle_input.c return without a word when the  *)
(* buffers their caller declared are full).                                *)
THEOREM NothingIsDropped == Spec => []NothingDropped
<1>1. ROInv => NothingDropped
  <2> SUFFICES ASSUME ROInv, calls = <<>>
               PROVE  /\ input.bits = Written(CallsOf(phase), "bits")[Len(CallsOf(phase))]
                      /\ input.fields = Written(CallsOf(phase), "field")[Len(CallsOf(phase))]
      BY DEF NothingDropped
  <2>1. Filled(input, CallsIn(sample, phase), Len(CallsIn(sample, phase)), phase)
      BY WhenComplete DEF ROInv
  <2> QED BY <2>1, CallsOfIs DEF Filled
<1> QED BY <1>1, ROInvAlways, PTL

(* message_derive is never refused its 268 bytes, and message_hash never   *)
(* writes past its nine fields, though roinput_to_fields cannot check it:  *)
(* it compares with a size in bytes.                                       *)
THEOREM BuffersSuffice == Spec => []FitsOutput
<1>1. ROInv => FitsOutput
  <2> SUFFICES ASSUME ROInv PROVE FitsOutput
      OBVIOUS
  <2>1. sample \in Samples /\ phase \in Phases /\ Outputs
      BY DEF ROInv
  <2>2. CASE phase \in {"hash", "signed"}
    <3>1. derived = roinput_to_bytes(Complete(sample, "derive"))
        BY <2>1, <2>2 DEF Outputs
    <3>2. Len(derived) = 2137
        BY <2>1, <3>1, DerivedIs, LengthsAre
    <3>3. derived # <<>> /\ Len(derived) <= 8 * DeriveBytes
      <4>1. Len(<<>>) = 0
          OBVIOUS
      <4>2. Len(derived) # 0
          BY <3>2
      <4> QED BY <3>2, <4>1, <4>2 DEF DeriveBytes
    <3>4. Len(hashed) <= HashFields
      <4>1. CASE phase = "hash"
        <5>1. hashed = <<>>
            BY <2>1, <4>1 DEF Outputs
        <5>2. Len(hashed) = 0
            BY <5>1
        <5> QED BY <5>2 DEF HashFields
      <4>2. CASE phase = "signed"
        <5>1. hashed = roinput_to_fields(Complete(sample, "hash"), HashLen)
            BY <2>1, <4>2 DEF Outputs
        <5>2. Len(hashed) = 9
            BY <2>1, <5>1, HashedIs
        <5> QED BY <5>2 DEF HashFields
      <4> QED BY <2>2, <4>1, <4>2
    <3> QED BY <3>3, <3>4 DEF FitsOutput
  <2>3. CASE phase \in {"tx", "derive"}
    <3>1. derived = <<>> /\ hashed = <<>>
        BY <2>1, <2>3 DEF Outputs
    <3>2. Len(derived) = 0 /\ Len(hashed) = 0
        BY <3>1
    <3> QED BY <2>3, <3>2 DEF FitsOutput, DeriveBytes, HashFields
  <2> QED BY <2>1, <2>2, <2>3 DEF Phases
<1> QED BY <1>1, ROInvAlways, PTL

(* The nine fields hashed into the challenge determine the transaction,    *)
(* the signer's key and r.x: what message_hash packs can be read back.     *)
THEOREM ChallengeDeterminesTx == Spec => []HashDeterminesTx
<1>1. ROInv => HashDeterminesTx
  <2> SUFFICES ASSUME ROInv, phase = "signed" PROVE HashDeterminesTx
      BY DEF HashDeterminesTx
  <2> DEFINE s == sample
             h == hashed
             all == CallsIn(s, "hash")
             bits == hashed[7] \o hashed[8] \o hashed[9]
             E == Seq(OneBit) \union ByteString(32)
  <2>1. s \in Samples /\ h = roinput_to_fields(Complete(s, "hash"), HashLen)
      BY DEF ROInv, Outputs
  <2>2. /\ Len(h) = 9 /\ \A k \in 1 .. 6 : h[k] = Reverse(AllFields(all)[k])
        /\ bits = AllBits(all) /\ h \in Seq(E)
      BY <2>1, HashedIs
  <2>3. TxFirst(all, s) /\ Len(all) = 20 /\ At(all, 20, 599, 6) /\ HashPlaced(all, s)
    <3>1. "hash" \in {"hash", "signed"}
        OBVIOUS
    <3> QED BY <2>1, <3>1, HashWritten
  <2> HIDE DEF s, h, all, bits, E
  <2>4. Len(bits) = 599
    <3>1. Len(AllBits(all)) = 599
        BY <2>3 DEF At, AllBits
    <3> QED BY <2>2, <3>1
  <2>5. Unpacked(SubSeq(h, 1, 3), bits) = s.tx
    <3> DEFINE m == 0
               n == 3
               f == SubSeq(h, m + 1, m + n)
    <3>1. m \in Nat /\ n \in Nat /\ m + n <= Len(h) /\ m = 0 /\ n = 3
        BY <2>2
    <3>2. SubSeq(h, 1, 3) = f
        OBVIOUS
    <3> HIDE DEF m, n
    <3>3. IsSlice(f, h, m, n)
        BY <2>2, <3>1, Slice
    <3> HIDE DEF f
    <3>4. ASSUME NEW k \in 1 .. 3 PROVE f[k] = Reverse(AllFields(all)[k])
      <4>1. k \in 1 .. n /\ m + k = k /\ k \in 1 .. 6
          BY <3>1
      <4>2. f[k] = h[m + k]
          BY <3>3, <4>1 DEF IsSlice
      <4>3. h[k] = Reverse(AllFields(all)[k])
          BY <2>2, <4>1
      <4> QED BY <4>1, <4>2, <4>3
    <3>5. Unpacked(f, AllBits(all)) = s.tx
        BY <2>1, <2>3, <3>4, TxUnpacked
    <3> QED BY <2>2, <3>2, <3>5
  <2>6. SubSeq(h, 4, 6) = <<s.pub.x, s.pub.y, s.rx>>
    <3> DEFINE m == 3
               n == 3
               t == SubSeq(h, m + 1, m + n)
    <3>1. m \in Nat /\ n \in Nat /\ m + n <= Len(h) /\ m = 3 /\ n = 3
        BY <2>2
    <3>2. SubSeq(h, 4, 6) = t
        OBVIOUS
    <3> HIDE DEF m, n
    <3>3. t \in Seq(E) /\ IsSlice(t, h, m, n)
        BY <2>2, <3>1, Slice
    <3> HIDE DEF t
    <3>4. Len(t) = 3 /\ t[1] = h[4] /\ t[2] = h[5] /\ t[3] = h[6]
      <4>1. 1 \in 1 .. n /\ 2 \in 1 .. n /\ 3 \in 1 .. n /\ m + 1 = 4 /\ m + 2 = 5 /\ m + 3 = 6
          BY <3>1
      <4>2. t[1] = h[m + 1] /\ t[2] = h[m + 2] /\ t[3] = h[m + 3] /\ Len(t) = n
          BY <3>3, <4>1 DEF IsSlice
      <4> QED BY <3>1, <4>1, <4>2
    <3>5. h[4] = s.pub.x /\ h[5] = s.pub.y /\ h[6] = s.rx
      <4>1. /\ h[4] = Reverse(AllFields(all)[4]) /\ h[5] = Reverse(AllFields(all)[5])
            /\ h[6] = Reverse(AllFields(all)[6])
          BY <2>2
      <4>2. /\ AllFields(all)[4] = Reverse(s.pub.x) /\ AllFields(all)[5] = Reverse(s.pub.y)
            /\ AllFields(all)[6] = Reverse(s.rx)
          BY <2>3 DEF HashPlaced
      <4>3. /\ Reverse(Reverse(s.pub.x)) = s.pub.x /\ Reverse(Reverse(s.pub.y)) = s.pub.y
            /\ Reverse(Reverse(s.rx)) = s.rx
          BY <2>1, SampleFields, FieldIs
      <4> QED BY <4>1, <4>2, <4>3, Zenon
    <3>6. t = <<t[1], t[2], t[3]>>
        BY <3>3, <3>4
    <3> QED BY <3>2, <3>4, <3>5, <3>6
  <2> QED BY <2>2, <2>4, <2>5, <2>6 DEF HashDeterminesTx, HashFields, LayoutBits, s, h, bits
<1> QED BY <1>1, ROInvAlways, PTL

\* The number that stands in FIELD_BITS bits of d after offset.
NumberAt(d, offset) ==
    Reverse(BytesAt(SubSeq(d, offset + 1, offset + FIELD_BITS) \o <<0>>, 0, FIELD_BYTES))

LEMMA FieldBack ==
    ASSUME NEW d \in Seq(OneBit), Len(d) = FieldsEnd + DerivedBits, NEW fields, PacksFields(d, fields),
           NEW k \in 1 .. 5, NEW a \in ByteString(32), fields[k] = Reverse(a)
    PROVE  NumberAt(d, (k - 1) * FIELD_BITS) = TopBitCleared(a)
<1> DEFINE offset == (k - 1) * FIELD_BITS
           c == TopBitCleared(a)
<1>1. offset \in Nat /\ offset + FIELD_BITS <= Len(d)
    BY LengthsAre
<1>2. \A j \in 1 .. FIELD_BITS : d[offset + j] = Bits(Reverse(a))[j]
    BY Zenon DEF PacksFields
<1>3. c \in Numbers /\ \A j \in 1 .. FIELD_BITS : Bits(Reverse(c))[j] = Bits(Reverse(a))[j]
    BY Cleared
<1> HIDE DEF offset, c
<1>4. Stands(d, offset, c)
    BY <1>1, <1>2, <1>3 DEF Stands
<1>5. Reverse(BytesAt(SubSeq(d, offset + 1, offset + FIELD_BITS) \o <<0>>, 0, FIELD_BYTES)) = c
    BY <1>1, <1>3, <1>4, NumberBack
<1> QED BY <1>5 DEF NumberAt, offset, c

\* Another third field is another x of the receiver, and nothing else.
LEMMA UnpackedReceiver ==
    ASSUME NEW f, NEW g, NEW bits, f[1] = g[1], f[2] = g[2], g[3] = TopBitCleared(f[3])
    PROVE  Unpacked(g, bits) = [Unpacked(f, bits) EXCEPT !.receiver.x = TopBitCleared(@)]
BY DEF Unpacked

LEMMA BitsBack ==
    ASSUME NEW d \in Seq(OneBit), Len(d) = FieldsEnd + DerivedBits,
           NEW bits \in Seq(OneBit), Len(bits) = DerivedBits, PacksBits(d, bits)
    PROVE  SubSeq(d, 5 * FIELD_BITS + 1, Len(d)) = bits
<1> DEFINE t == SubSeq(d, FieldsEnd + 1, FieldsEnd + DerivedBits)
<1>1. FieldsEnd \in Nat /\ DerivedBits \in Nat /\ FieldsEnd + DerivedBits <= Len(d)
    BY LengthsAre
<1>2. SubSeq(d, 5 * FIELD_BITS + 1, Len(d)) = t
    BY Zenon DEF FieldsEnd
<1>3. t \in Seq(OneBit) /\ IsSlice(t, d, FieldsEnd, DerivedBits)
    BY <1>1, Slice
<1> HIDE DEF t
<1>4. Len(t) = DerivedBits /\ \A j \in 1 .. DerivedBits : t[j] = d[FieldsEnd + j]
    BY <1>3, Zenon DEF IsSlice
<1>5. Len(t) = Len(bits) /\ \A j \in 1 .. Len(t) : t[j] = bits[j]
    BY <1>4, Zenon DEF PacksBits
<1>6. t = bits
    BY <1>3, <1>5, SeqEqual
<1> QED BY <1>2, <1>6

LEMMA ScalarBack ==
    ASSUME NEW d \in Seq(OneBit), Len(d) = FieldsEnd + DerivedBits, NEW bits, PacksBits(d, bits),
           NEW a \in Numbers, Holds(bits, LayoutBits, ScalarBits(a))
    PROVE  NumberAt(d, 5 * FIELD_BITS + LayoutBits) = a
<1> DEFINE offset == 5 * FIELD_BITS + LayoutBits
           S == ScalarBits(a)
<1>1. offset \in Nat /\ offset + FIELD_BITS <= Len(d) /\ offset = FieldsEnd + LayoutBits
    BY LengthsAre
<1>2. Len(S) = FIELD_BITS /\ \A j \in 1 .. FIELD_BITS : S[j] = Bits(Reverse(a))[j]
    BY NumberIs, FieldIs
<1> HIDE DEF offset, S
<1>3. ASSUME NEW j \in 1 .. FIELD_BITS PROVE d[offset + j] = Bits(Reverse(a))[j]
  <2> DEFINE i == LayoutBits + j
  <2>1. bits[i] = S[j]
    <3>1. j \in 1 .. Len(S)
        BY <1>2, Zenon
    <3> QED BY <3>1, Zenon DEF Holds, S
  <2>2. i \in 1 .. DerivedBits /\ FieldsEnd + i = offset + j
      BY <1>1, LengthsAre
  <2> HIDE DEF i
  <2>3. d[FieldsEnd + i] = bits[i]
      BY <2>2, Zenon DEF PacksBits
  <2>4. S[j] = Bits(Reverse(a))[j]
      BY <1>2, Zenon
  <2> QED BY <2>1, <2>2, <2>3, <2>4, Zenon
<1>4. Stands(d, offset, a)
    BY <1>1, <1>3 DEF Stands
<1>5. Reverse(BytesAt(SubSeq(d, offset + 1, offset + FIELD_BITS) \o <<0>>, 0, FIELD_BYTES)) = a
    BY <1>1, <1>4, NumberBack
<1> QED BY <1>5 DEF NumberAt, offset

(* The 2137 bits hashed into the nonce k determine both keys, the network  *)
(* and the transaction but for the 256th bit of the receiver's x, whatever *)
(* 32 bytes the host gave: requests that differ in more than that bit are  *)
(* never hashed into k alike.                                              *)
THEOREM NonceDeterminesTx == Spec => []DeriveDeterminesTx
<1>1. ROInv => DeriveDeterminesTx
  <2> SUFFICES ASSUME ROInv, derived # <<>> PROVE DeriveDeterminesTx
      BY DEF DeriveDeterminesTx
  <2> DEFINE s == sample
             d == derived
             all == CallsIn(s, "derive")
             bits == SubSeq(derived, 5 * FIELD_BITS + 1, Len(derived))
  <2>1. s \in Samples /\ d = roinput_to_bytes(Complete(s, "derive"))
      BY DEF ROInv, Outputs, Phases
  <2>2. /\ d \in Seq(OneBit) /\ Len(d) = FieldsEnd + DerivedBits
        /\ PacksFields(d, AllFields(all)) /\ PacksBits(d, AllBits(all))
        /\ AllBits(all) \in Seq(OneBit) /\ Len(AllBits(all)) = DerivedBits
      BY <2>1, DerivedIs
  <2>3. TxFirst(all, s) /\ Len(all) = 21 /\ At(all, 21, 862, 5) /\ DerivePlaced(all, s)
      BY <2>1, DeriveWritten
  <2>4. bits = AllBits(all)
      BY <2>2, BitsBack
  <2> HIDE DEF s, d, all, bits
  <2>5. Len(bits) = LayoutBits + FIELD_BITS + 8
    <3>1. Len(bits) = DerivedBits
        BY <2>2, <2>4
    <3> QED BY <3>1 DEF DerivedBits
  <2>6. /\ AllFields(all)[1] = Reverse(s.tx.fee_payer.x) /\ AllFields(all)[2] = Reverse(s.tx.source.x)
        /\ AllFields(all)[3] = Reverse(s.tx.receiver.x)
        /\ AllFields(all)[4] = Reverse(s.pub.x) /\ AllFields(all)[5] = Reverse(s.pub.y)
      BY <2>1, <2>3, TxWritten DEF TxPlaced, DerivePlaced
  <2>7. /\ s.tx.fee_payer.x \in Numbers /\ s.tx.source.x \in Numbers
        /\ s.pub.x \in Numbers /\ s.pub.y \in Numbers /\ s.priv \in Numbers
      BY <2>1, SampleIs
  <2> DEFINE F(k) == NumberAt(d, (k - 1) * FIELD_BITS)
             x == s.tx.receiver.x
  <2>8. \A k \in 1 .. 5 : \A a \in ByteString(32) :
            AllFields(all)[k] = Reverse(a) => F(k) = TopBitCleared(a)
      BY <2>2, FieldBack
  <2> HIDE DEF F
  <2>9. /\ F(1) = s.tx.fee_payer.x /\ F(2) = s.tx.source.x /\ F(3) = TopBitCleared(x)
        /\ F(4) = s.pub.x /\ F(5) = s.pub.y
    <3>1. /\ F(1) = TopBitCleared(s.tx.fee_payer.x) /\ F(2) = TopBitCleared(s.tx.source.x)
          /\ F(3) = TopBitCleared(x)
          /\ F(4) = TopBitCleared(s.pub.x) /\ F(5) = TopBitCleared(s.pub.y)
        BY <2>1, <2>6, <2>8, SampleFields
    <3>2. \A a \in Numbers : TopBitCleared(a) = a
        BY NumberIs, Cleared
    <3> QED BY <2>7, <3>1, <3>2
  <2>10. Unpacked([k \in 1 .. 3 |-> F(k)], bits) = [s.tx EXCEPT !.receiver.x = TopBitCleared(@)]
    <3> DEFINE f == [k \in 1 .. 3 |-> Reverse(AllFields(all)[k])]
               g == [k \in 1 .. 3 |-> F(k)]
    <3>1. /\ g[1] = F(1) /\ g[2] = F(2) /\ g[3] = F(3)
          /\ f[1] = Reverse(AllFields(all)[1]) /\ f[2] = Reverse(AllFields(all)[2])
          /\ f[3] = Reverse(AllFields(all)[3])
          /\ \A k \in 1 .. 3 : f[k] = Reverse(AllFields(all)[k])
        OBVIOUS
    <3> HIDE DEF f, g
    <3>2. f[1] = s.tx.fee_payer.x /\ f[2] = s.tx.source.x /\ f[3] = x
      <4>1. /\ Reverse(Reverse(s.tx.fee_payer.x)) = s.tx.fee_payer.x
            /\ Reverse(Reverse(s.tx.source.x)) = s.tx.source.x
            /\ Reverse(Reverse(x)) = x
          BY <2>1, SampleFields, FieldIs
      <4> QED BY <2>6, <3>1, <4>1, Zenon
    <3>3. Unpacked(f, AllBits(all)) = s.tx
        BY <2>1, <2>3, <3>1, TxUnpacked
    <3>4. f[1] = g[1] /\ f[2] = g[2] /\ g[3] = TopBitCleared(f[3])
        BY <2>9, <3>1, <3>2, Zenon
    <3>5. Unpacked(g, bits) = [Unpacked(f, bits) EXCEPT !.receiver.x = TopBitCleared(@)]
        BY <3>4, UnpackedReceiver
    <3> QED BY <2>4, <3>3, <3>5 DEF g
  <2>11. NumberAt(d, 5 * FIELD_BITS + LayoutBits) = s.priv
    <3>1. Holds(AllBits(all), 599, ScalarBits(s.priv))
        BY <2>3 DEF DerivePlaced
    <3>2. Holds(AllBits(all), LayoutBits, ScalarBits(s.priv))
        BY <3>1 DEF LayoutBits
    <3> QED BY <2>2, <2>7, <3>2, ScalarBack
  <2>12. BytesAt(bits, LayoutBits + FIELD_BITS, 1) = <<s.network_id>>
    <3> DEFINE b == <<s.network_id>>
               n == 1
               o == LayoutBits + FIELD_BITS
    <3>1. n \in Nat /\ b \in ByteString(n)
        BY <2>1, DeriveCallsAre
    <3>2. o = 854
        BY DEF LayoutBits, FIELD_BITS
    <3>3. Holds(AllBits(all), 854, Bits(b))
        BY <2>3 DEF DerivePlaced
    <3> HIDE DEF b, n, o
    <3>4. Holds(bits, o, Bits(b))
        BY <2>4, <3>2, <3>3
    <3>5. BytesAt(bits, o, n) = b
        BY <3>1, <3>4, BytesBack
    <3> QED BY <3>5 DEF b, n, o
  <2>13. DeriveDeterminesTx =
           (derived # <<>> =>
              /\ Len(bits) = LayoutBits + FIELD_BITS + 8
              /\ Unpacked([k \in 1 .. 3 |-> F(k)], bits) =
                     [s.tx EXCEPT !.receiver.x = TopBitCleared(@)]
              /\ F(4) = s.pub.x /\ F(5) = s.pub.y
              /\ NumberAt(d, 5 * FIELD_BITS + LayoutBits) = s.priv
              /\ BytesAt(bits, LayoutBits + FIELD_BITS, 1) = <<s.network_id>>)
      BY Zenon DEF DeriveDeterminesTx, F, NumberAt, bits, s, d
  <2> QED BY <2>5, <2>9, <2>10, <2>11, <2>12, <2>13
<1> QED BY <1>1, ROInvAlways, PTL
=============================================================================
