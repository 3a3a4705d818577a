------------------------------ MODULE ROInput ------------------------------
(***************************************************************************)
(* How a transaction becomes the input of the two hashes of a signature.   *)
(* An ROInput is a buffer of field elements and a buffer of bits, each     *)
(* with a capacity fixed by its caller; the functions that add to it       *)
(* return without a word when there is no room.  transaction_to_roinput    *)
(* fills one, message_derive and message_hash copy it into larger ones,    *)
(* add to them and pack the result into buffers of fixed size.             *)
(*                                                                         *)
(* The lengths are those of the code: 255-bit fields, 75 bytes of bits.    *)
(***************************************************************************)
EXTENDS Powers, SequencesExt

CONSTANT
    Samples   \* what is signed: the transaction, the keys and r.x, as bytes

\* Field elements and scalars are big endian.  Those the app computes are
\* below 2^255: its keys, r.x, and the payer and the source, whose address
\* sign_transaction compares with that of the app's own key.  The receiver
\* is told by the host: any 32 bytes, for only the checksum is looked at.
OneBit        == 0 .. 1
OneByte       == 0 .. 255
ByteString(n) == [1 .. n -> OneByte]
Numbers       == {a \in ByteString(32) : a[1] < 128}
ASSUME SamplesAssumption ==
    LET Own  == [x : Numbers, is_odd : OneBit]
        Told == [x : ByteString(32), is_odd : OneBit]
    IN  \A s \in Samples :
            /\ s.tx \in [fee_payer : Own, source : Own, receiver : Told,
                         fee : ByteString(8), fee_token : ByteString(8), nonce : ByteString(4),
                         valid_until : ByteString(4), memo : ByteString(34), tag : [1 .. 3 -> OneBit],
                         token_id : ByteString(8), amount : ByteString(8), token_locked : OneBit]
            /\ s.pub \in [x : Numbers, y : Numbers]
            /\ s.priv \in Numbers /\ s.rx \in Numbers /\ s.network_id \in OneByte

FIELD_BITS     == 255
FIELD_BYTES    == 32
SCALAR_BYTES   == 32
MAX_CHUNK_SIZE == FIELD_BITS - 1

\* fee, fee_token, nonce, valid_until, memo, token_id, amount, tag and lock
\* Slip: the seven single bits are not given a byte.
TX_BITSTRINGS_BYTES_noTag == 8 + 8 + 4 + 4 + 34 + 8 + 8
TX_BITSTRINGS_BYTES == 8 + 8 + 4 + 4 + 34 + 8 + 8 + (3 - 2)
\* Slip: the bits of the last byte are rounded away.
DeriveBytes_rounded == 267
DeriveBytes == 268    \* derive_msg of message_derive
HashFields  == 9      \* hash_msg of message_hash
HashLen     == HashFields * FIELD_BYTES    \* sizeof(hash_msg), given as its length

VARIABLES
    sample,  \* what is being signed
    phase,   \* "tx", "derive", "hash" or "signed"
    calls,   \* the roinput_add_ calls still to make
    base,    \* the input of the transaction alone
    input,   \* the input under construction
    derived, \* the bits hashed into k
    hashed   \* the fields hashed into e

vars == <<sample, phase, calls, base, input, derived, hashed>>

----------------------------------------------------------------------------
\* The bits of bytes, least significant first.
Bits(bytes) == [k \in 1 .. 8 * Len(bytes) |-> (bytes[(k - 1) \div 8 + 1] \div Power(2)[(k - 1) % 8]) % 2]

Empty(fields, bits) ==
    [fields |-> <<>>, bits |-> <<>>, fields_capacity |-> fields, bits_capacity |-> bits]

\* A field element is kept little endian.
roinput_add_field(in, a) ==
    IF in.fields_capacity - Len(in.fields) < 1 THEN in
    ELSE [in EXCEPT !.fields = Append(@, Reverse(a))]

AddBits(in, bits) ==
    IF in.bits_capacity * 8 - Len(in.bits) < Len(bits) THEN in
    ELSE [in EXCEPT !.bits = @ \o bits]

\* roinput_add_scalar takes FIELD_BITS bits of a scalar, which is big endian.
ScalarBits(a) == SubSeq(Bits(Reverse(a)), 1, FIELD_BITS)

Add(in, call) == IF call.op = "field" THEN roinput_add_field(in, call.value)
                 ELSE AddBits(in, call.value)

Field(a)     == [op |-> "field", value |-> a]
Bit(b)       == [op |-> "bits", value |-> <<b>>]
Bytes(bytes) == [op |-> "bits", value |-> Bits(bytes)]    \* uint32, uint64, bytes: little endian
Scalar(a)    == [op |-> "bits", value |-> ScalarBits(a)]

\* Slip: the receiver's parity is left out.
transaction_to_roinput_oneParity(tx) ==
    << Field(tx.fee_payer.x), Field(tx.source.x), Field(tx.receiver.x),
       Bytes(tx.fee), Bytes(tx.fee_token), Bit(tx.fee_payer.is_odd),
       Bytes(tx.nonce), Bytes(tx.valid_until), Bytes(tx.memo),
       Bit(tx.tag[1]), Bit(tx.tag[2]), Bit(tx.tag[3]),
       Bit(tx.source.is_odd), Bytes(tx.token_id), Bytes(tx.amount), Bit(tx.token_locked) >>
transaction_to_roinput(tx) ==
    << Field(tx.fee_payer.x), Field(tx.source.x), Field(tx.receiver.x),
       Bytes(tx.fee), Bytes(tx.fee_token), Bit(tx.fee_payer.is_odd),
       Bytes(tx.nonce), Bytes(tx.valid_until), Bytes(tx.memo),
       Bit(tx.tag[1]), Bit(tx.tag[2]), Bit(tx.tag[3]),
       Bit(tx.source.is_odd), Bit(tx.receiver.is_odd),
       Bytes(tx.token_id), Bytes(tx.amount), Bit(tx.token_locked) >>

\* Slip: the network is not part of what k is hashed from, as it is not of e.
DeriveCalls_anyNetwork(s) == << Field(s.pub.x), Field(s.pub.y), Scalar(s.priv) >>
DeriveCalls(s) ==
    << Field(s.pub.x), Field(s.pub.y), Scalar(s.priv), Bytes(<<s.network_id>>) >>
HashCalls(s) == << Field(s.pub.x), Field(s.pub.y), Field(s.rx) >>

----------------------------------------------------------------------------
\* roinput_to_bytes: FIELD_BITS bits of each field, then the bits.
roinput_to_bytes(in) ==
    [k \in 1 .. FIELD_BITS * Len(in.fields) |->
        Bits(in.fields[(k - 1) \div FIELD_BITS + 1])[((k - 1) % FIELD_BITS) + 1]] \o in.bits

\* roinput_to_fields: the fields, big endian again, then the bits in chunks
\* of one less than a field holds.
Chunk(bits, k) == SubSeq(bits, (k - 1) * MAX_CHUNK_SIZE + 1,
                         IF k * MAX_CHUNK_SIZE < Len(bits) THEN k * MAX_CHUNK_SIZE ELSE Len(bits))
Chunks(bits) == [k \in 1 .. (Len(bits) + MAX_CHUNK_SIZE - 1) \div MAX_CHUNK_SIZE |-> Chunk(bits, k)]
roinput_to_fields(in, len) ==
    IF len < Len(in.fields) THEN <<>>
    ELSE [k \in 1 .. Len(in.fields) |-> Reverse(in.fields[k])] \o Chunks(in.bits)

SizeInBytes(in) == (Len(in.bits) + FIELD_BITS * Len(in.fields) + 7) \div 8

Init ==
    /\ sample \in Samples
    /\ phase = "tx"
    /\ calls = transaction_to_roinput(sample.tx)
    /\ input = Empty(3, TX_BITSTRINGS_BYTES)
    /\ base = input
    /\ derived = <<>>
    /\ hashed = <<>>

AddNext ==
    /\ calls # <<>>
    /\ input' = Add(input, Head(calls))
    /\ calls' = Tail(calls)
    /\ UNCHANGED <<sample, phase, base, derived, hashed>>

\* The copy the two hashes start from.
Copy(in, fields, bits) ==
    [in EXCEPT !.fields_capacity = @ + fields, !.bits_capacity = @ + bits]

StartDerive ==
    /\ phase = "tx" /\ calls = <<>>
    /\ phase' = "derive"
    /\ base' = input
    /\ input' = Copy(input, 2, SCALAR_BYTES + 1)
    /\ calls' = DeriveCalls(sample)
    /\ UNCHANGED <<sample, derived, hashed>>

StartHash ==
    /\ phase = "derive" /\ calls = <<>>
    /\ phase' = "hash"
    /\ derived' = IF SizeInBytes(input) <= DeriveBytes THEN roinput_to_bytes(input) ELSE <<>>
    /\ input' = Copy(base, 3, 0)
    /\ calls' = HashCalls(sample)
    /\ UNCHANGED <<sample, base, hashed>>

Finish ==
    /\ phase = "hash" /\ calls = <<>>
    /\ phase' = "signed"
    /\ hashed' = roinput_to_fields(input, HashLen)
    /\ UNCHANGED <<sample, calls, base, input, derived>>

Next == AddNext \/ StartDerive \/ StartHash \/ Finish

Spec == Init /\ [][Next]_vars

----------------------------------------------------------------------------
(* Every call made on the input so far. *)
CallsOf(ph) ==
    transaction_to_roinput(sample.tx) \o
    (CASE ph = "tx" -> <<>> [] ph = "derive" -> DeriveCalls(sample) [] OTHER -> HashCalls(sample))

(* The operands of one kind among the first n calls, end to end.           *)
Operand(call) == IF call.op = "field" THEN <<Reverse(call.value)>> ELSE call.value
Written(all, op) ==
    LET w[n \in 0 .. Len(all)] ==
            IF n = 0 THEN <<>> ELSE IF all[n].op = op THEN w[n - 1] \o Operand(all[n]) ELSE w[n - 1]
    IN  w

(* roinput_add_* return silently when the buffer their caller declared is  *)
(* full, so a byte too few would sign less than was shown: when a message  *)
(* is complete it holds the operand of every call, in the order of calls.  *)
NothingDropped ==
    calls = <<>> =>
        LET all == CallsOf(phase)
        IN  /\ input.bits = Written(all, "bits")[Len(all)]
            /\ input.fields = Written(all, "field")[Len(all)]

(* The transaction read back from bits, at the offsets of Mina's layout.   *)
LayoutBits == 599
ByteAt(bits, offset) ==
    bits[offset + 1] + 2 * bits[offset + 2] + 4 * bits[offset + 3] + 8 * bits[offset + 4]
        + 16 * bits[offset + 5] + 32 * bits[offset + 6] + 64 * bits[offset + 7] + 128 * bits[offset + 8]
BytesAt(bits, offset, count) == [k \in 1 .. count |-> ByteAt(bits, offset + 8 * (k - 1))]
Unpacked(fields, bits) ==
    [fee_payer    |-> [x |-> fields[1], is_odd |-> bits[129]],
     source       |-> [x |-> fields[2], is_odd |-> bits[469]],
     receiver     |-> [x |-> fields[3], is_odd |-> bits[470]],
     fee          |-> BytesAt(bits, 0, 8),
     fee_token    |-> BytesAt(bits, 64, 8),
     nonce        |-> BytesAt(bits, 129, 4),
     valid_until  |-> BytesAt(bits, 161, 4),
     memo         |-> BytesAt(bits, 193, 34),
     tag          |-> SubSeq(bits, 466, 468),
     token_id     |-> BytesAt(bits, 470, 8),
     amount       |-> BytesAt(bits, 534, 8),
     token_locked |-> bits[599]]

(* The fields message_hash packs for the challenge determine the whole     *)
(* transaction, the signer's key and r.x, all 32 bytes of each field.      *)
HashDeterminesTx ==
    phase = "signed" =>
        LET bits == hashed[7] \o hashed[8] \o hashed[9]
        IN  /\ Len(hashed) = HashFields
            /\ Len(bits) = LayoutBits
            /\ Unpacked(SubSeq(hashed, 1, 3), bits) = sample.tx
            /\ SubSeq(hashed, 4, 6) = <<sample.pub.x, sample.pub.y, sample.rx>>

\* What FIELD_BITS bits keep of 32 bytes.
TopBitCleared(a) == [a EXCEPT ![1] = @ % 128]

(* The nonce k is hashed from both keys, the network and the transaction,  *)
(* all of it but the 256th bit of the receiver's x: roinput_to_bytes takes *)
(* 255 bits of a field, and no check of the address keeps that bit clear.  *)
(* Two requests share what k is hashed from only if they differ in nothing *)
(* but that bit, which message_hash does keep.                             *)
DeriveDeterminesTx ==
    derived # <<>> =>
        LET number(offset) == Reverse(BytesAt(SubSeq(derived, offset + 1, offset + FIELD_BITS) \o <<0>>,
                                              0, FIELD_BYTES))
            field(k) == number((k - 1) * FIELD_BITS)
            bits == SubSeq(derived, 5 * FIELD_BITS + 1, Len(derived))
        IN  /\ Len(bits) = LayoutBits + FIELD_BITS + 8
            /\ Unpacked([k \in 1 .. 3 |-> field(k)], bits) =
                   [sample.tx EXCEPT !.receiver.x = TopBitCleared(@)]
            /\ field(4) = sample.pub.x /\ field(5) = sample.pub.y
            /\ number(5 * FIELD_BITS + LayoutBits) = sample.priv
            /\ BytesAt(bits, LayoutBits + FIELD_BITS, 1) = <<sample.network_id>>

(* The buffers message_derive and message_hash pass are large enough: the  *)
(* derivation is not refused, and the packed fields stay in hash_msg,      *)
(* which roinput_to_fields does not check (it is given sizeof, in bytes).  *)
FitsOutput ==
    /\ phase \in {"hash", "signed"} => derived # <<>>
    /\ Len(derived) <= 8 * DeriveBytes
    /\ Len(hashed) <= HashFields
=============================================================================
