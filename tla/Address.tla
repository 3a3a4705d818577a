------------------------------ MODULE Address ------------------------------
(***************************************************************************)
(* Keys as addresses: generate_address, with which the app shows a key,    *)
(* and validate_address and read_public_key_compressed, with which         *)
(* parse_tx takes one from the host.  An address leaves the device and     *)
(* comes back as it was, or the host sends a text of its own.              *)
(***************************************************************************)
EXTENDS Base58

CONSTANTS
    FIELD_BYTES,         \* bytes of an x-coordinate
    CHECKSUM_BYTES,      \* bytes of the checksum
    VERSION,             \* the first byte of an address, 0xcb
    MINA_ADDRESS_LEN,    \* characters of an address and the null byte
    Checksum(_),         \* the first bytes of SHA-256 twice, of all bytes before it
    PubKeys,             \* [x : sequences of FIELD_BYTES bytes, is_odd : BOOLEAN]
    Texts,               \* what a host may send
    Stack                \* what the stack may hold where bytes will be

VARIABLES
    key,         \* the account's
    text,        \* the address shown or received
    pc,          \* "key", "shown", "received", "accepted", "refused" or "read"
    out          \* the key that was read

vars == <<key, text, pc, out>>

NoKey == [x |-> <<>>, is_odd |-> FALSE]
Blank == <<>>    \* address[0] = '\0'

\* The struct of the three functions: version, payload, checksum.
PayloadBytes == 2 + FIELD_BYTES + 1
RawBytes     == 1 + PayloadBytes + CHECKSUM_BYTES
payload(raw)  == SubSeq(raw, 2, 1 + PayloadBytes)
checksum(raw) == SubSeq(raw, 2 + PayloadBytes, RawBytes)
Summed(raw)   == SubSeq(raw, 1, 1 + PayloadBytes)

ASSUME SizesAssumption ==
    FIELD_BYTES \in Nat \ {0} /\ CHECKSUM_BYTES \in Nat \ {0} /\ MINA_ADDRESS_LEN \in Nat \ {0, 1}
ASSUME BytesAssumption ==
    /\ \A summed \in [1 .. 1 + PayloadBytes -> 0 .. BYTE - 1] :
           Checksum(summed) \in [1 .. CHECKSUM_BYTES -> 0 .. BYTE - 1]
    /\ PubKeys \subseteq [x : [1 .. FIELD_BYTES -> 0 .. BYTE - 1], is_odd : BOOLEAN]
    /\ Texts \subseteq Seq(0 .. BASE)
    /\ Stack \subseteq [1 .. RawBytes -> 0 .. BYTE - 1]
\* With the version in front, whatever follows has one length in base 58:
\* 58^54 < 203 * 256^39 and 204 * 256^39 < 58^55.
ASSUME VersionAssumption ==
    /\ VERSION \in 1 .. BYTE - 1
    /\ Power(BASE)[MINA_ADDRESS_LEN - 2] <= VERSION * Power(BYTE)[RawBytes - 1]
    /\ (VERSION + 1) * Power(BYTE)[RawBytes - 1] <= Power(BASE)[MINA_ADDRESS_LEN - 1]

Init ==
    /\ out = NoKey
    /\ \/ key \in PubKeys /\ text = Blank /\ pc = "key"
       \/ key = NoKey /\ text \in Texts /\ pc = "received"

generate_address(pub_key, len) ==
    LET summed  == <<VERSION, 1, 1>> \o Reverse(pub_key.x) \o <<IF pub_key.is_odd THEN 1 ELSE 0>>
        address == b58_encode(summed \o Checksum(summed), len)
    IN  IF address = Fail \/ Len(address) # len - 1 THEN Blank ELSE address

Show ==
    /\ pc = "key"
    /\ text' = generate_address(key, MINA_ADDRESS_LEN)
    /\ pc' = "shown"
    /\ UNCHANGED <<key, out>>

SendBack ==
    /\ pc = "shown"
    /\ pc' = "received"
    /\ UNCHANGED <<key, text, out>>

\* The result of b58_decode is not looked at, so the sum may be that of
\* what the stack held, junk.
\* Slip: the checksum is not compared.
validate_address_anySum(address, junk) ==
    Len(address) = MINA_ADDRESS_LEN - 1
validate_address(address, junk) ==
    /\ Len(address) = MINA_ADDRESS_LEN - 1
    /\ LET raw == b58_decode(junk, address).bin
       IN  checksum(raw) = Checksum(Summed(raw))

Validate ==
    /\ pc = "received"
    /\ \E junk \in Stack :
           pc' = IF validate_address(text, junk) THEN "accepted" ELSE "refused"
    /\ UNCHANGED <<key, text, out>>

\* Slip: the bytes are taken in the order of the address.
read_public_key_compressed_asIs(address, junk) ==
    LET raw == b58_decode(junk, address).bin
    IN  [x |-> SubSeq(payload(raw), 3, PayloadBytes - 1), is_odd |-> payload(raw)[PayloadBytes] # 0]
read_public_key_compressed(address, junk) ==
    LET raw == b58_decode(junk, address).bin
    IN  [x |-> Reverse(SubSeq(payload(raw), 3, PayloadBytes - 1)), is_odd |-> payload(raw)[PayloadBytes] # 0]

Read ==
    /\ pc = "accepted"
    /\ \E junk \in Stack : out' = read_public_key_compressed(text, junk)
    /\ pc' = "read"
    /\ UNCHANGED <<key, text>>

Next == Show \/ SendBack \/ Validate \/ Read

Spec == Init /\ [][Next]_vars

----------------------------------------------------------------------------
\* The number that the first k digits write.
Values(digits, base) ==
    LET v[k \in 0 .. Len(digits)] == IF k = 0 THEN 0 ELSE v[k - 1] * base + digits[k]
    IN  v
Value(digits, base) == Values(digits, base)[Len(digits)]

(* Every key has an address of the one length that is accepted, and it     *)
(* comes back as the key it was made from: reversed bytes, parity,         *)
(* checksum, characters and limbs, whatever is on the stack.               *)
KeyComesBack ==
    /\ pc = "shown" => Len(text) = MINA_ADDRESS_LEN - 1
    /\ key # NoKey => pc # "refused"
    /\ key # NoKey /\ pc = "read" => out = key

(* b58_decode is the number a text writes in base 58, in exactly as many   *)
(* bytes as asked for, or a refusal when there is a foreign character or   *)
(* the number has more bytes; a refusal leaves the buffer alone.  So two   *)
(* texts of one length that decode never decode to the same bytes.         *)
DecodeIsValue ==
    pc = "received" =>
        \A junk \in Stack : LET result == b58_decode(junk, text) IN
            /\ result.ok <=> (\A n \in DOMAIN text : text[n] < BASE) /\ Value(text, BASE) < Power(BYTE)[RawBytes]
            /\ result.ok => Value(result.bin, BYTE) = Value(text, BASE) /\ Len(result.bin) = RawBytes
            /\ ~result.ok => result.bin = junk

(***************************************************************************)
(* ParseTx has an address as the key it carries and one of four encodings. *)
(* AddressOf is what it makes of a text, ResidueOf what it makes of two    *)
(* buffers on the stack, of validate_address and of                        *)
(* read_public_key_compressed; the constants that have nothing to do with  *)
(* addresses are the least there are.                                      *)
(***************************************************************************)
Parse == INSTANCE ParseTx WITH
    CurrencyModulus <- 1, HardenedOffset <- 1, Derive <- [n \in {1} |-> NoKey],
    Memos <- {""}, NoMemo <- "", NoText <- "", AmountText <- <<>>, ValueText <- <<>>

IsSummed(raw) == checksum(raw) = Checksum(Summed(raw))
Standard(raw) == SubSeq(raw, 1, 3) = <<VERSION, 1, 1>> /\ payload(raw)[PayloadBytes] \in {0, 1}

AddressOf(address) ==
    LET result == b58_decode(Zeros(RawBytes), address)
    IN  [pk  |-> read_public_key_compressed(address, Zeros(RawBytes)),
         enc |-> IF Len(address) # MINA_ADDRESS_LEN - 1 THEN "badsum"
                 ELSE IF ~result.ok THEN "undecodable"
                 ELSE IF ~IsSummed(result.bin) THEN "badsum"
                 ELSE IF Standard(result.bin) THEN "mina" ELSE "other"]
ResidueOf(validated, reading) ==
    [passes |-> IsSummed(validated), key |-> read_public_key_compressed(<<BASE>>, reading)]

(***************************************************************************)
(* The addresses of ParseTx stand for the texts: it accepts what the code  *)
(* accepts and reads the key the code reads, also from unwritten buffers.  *)
(* An address it takes to be that of a key is, character by character, the *)
(* text the device itself shows for this key, and no other text: that is   *)
(* what the comparison in sign_transaction and the review of the receiver  *)
(* rest on.  Texts with other version or parity bytes, which               *)
(* validate_address does not look at, are kept apart.                      *)
(***************************************************************************)
StandsFor ==
    /\ pc = "received" =>
           LET abstract == AddressOf(text)
           IN  /\ \A validated, reading \in Stack :
                     LET residue == ResidueOf(validated, reading)
                     IN  /\ validate_address(text, validated) <=> Parse!validate_address(abstract, residue)
                         /\ validate_address(text, validated) =>
                                read_public_key_compressed(text, reading)
                                    = Parse!read_public_key_compressed(abstract, residue)
               /\ abstract.enc = "mina" => text = generate_address(abstract.pk, MINA_ADDRESS_LEN)
    /\ pc = "shown" => AddressOf(text) = Parse!generate_address(key)

(* The loop of b58_encode, which has no bound of its own, is through       *)
(* before it has written more than two characters for each byte, leading   *)
(* zeros included, and writes the number it was given, whatever the bytes  *)
(* (those of every text that decodes, which are all there are).            *)
EncodeFits ==
    pc = "received" =>
        LET in      == b58_decode(Zeros(RawBytes), text).bin
            divided == Divided(in)
            out58   == b58_encode(in, 2 * RawBytes)
        IN  /\ divided.startAt > RawBytes
            /\ Len(divided.buffer) + LeadingZeros(in) <= 2 * RawBytes
            /\ Value(out58, BASE) = Value(in, BYTE)
            /\ LeadingZeros(out58) = LeadingZeros(in)
=============================================================================
