------------------------------ MODULE ParseTx ------------------------------
(***************************************************************************)
(* The sign request of the Mina app: what parse_tx reads, checks and       *)
(* writes, which pages the review of a transaction has, what each page     *)
(* shows, and what the signature covers.                                   *)
(*                                                                         *)
(* parse_tx writes the two static structures _tx and _ui of sign_tx.c as   *)
(* it goes and returns at the first check that fails, so a refused request *)
(* leaves them half overwritten.  The operators below keep that order: a   *)
(* field is written exactly when parsing gets as far as its assignment.    *)
(***************************************************************************)
EXTENDS Integers

CONSTANTS
    PubKeys,          \* compressed public keys
    NoKey,            \* a key no account of the device has
    CurrencyModulus,  \* 2^64 in the code: amounts are unsigned 64-bit
    HardenedOffset,   \* 2^31 in the code: BIP32_HARDENED_OFFSET
    Derive,           \* os_perso_derive_node_bip32 and generate_pubkey, by account node
    Memos,            \* memo texts
    NoMemo,           \* the empty memo
    NoText,           \* an empty text buffer
    AmountText,       \* amount_to_string: what the screen shows for an amount
    ValueText         \* value_to_string: what the screen shows for a 32-bit value

Currency == 0 .. CurrencyModulus - 1
Uint32   == 0 .. 2 * HardenedOffset - 1
Forever  == 2 * HardenedOffset - 1      \* (uint32_t)-1: the transaction never expires
Keys     == PubKeys \union {NoKey}

(***************************************************************************)
(* The two texts tell their values apart; NumberText checks it of the      *)
(* code's conversions.                                                     *)
(***************************************************************************)
ASSUME ModulusAssumption == CurrencyModulus \in Nat \ {0} /\ HardenedOffset \in Nat \ {0}
ASSUME DeriveAssumption  == Derive \in [HardenedOffset .. 2 * HardenedOffset - 1 -> PubKeys]
ASSUME MemoAssumption    == NoMemo \in Memos
ASSUME AmountTextAssumption ==
    \A v, w \in Currency : AmountText[v] = AmountText[w] => v = w
ASSUME ValueTextAssumption ==
    \A v, w \in Uint32 : ValueText[v] = ValueText[w] => v = w

(***************************************************************************)
(* Addresses.  The 55 characters of an address are abstracted to the key   *)
(* they carry and to what decoding makes of them (Address!StandsFor):      *)
(*   "mina"         decodes, checksum right, as generate_address writes it *)
(*   "other"        decodes, checksum right, other version or parity bytes *)
(*   "badsum"       decodes, checksum wrong                                *)
(*   "undecodable"  a character outside the alphabet, or a number too big  *)
(***************************************************************************)
Encodings == {"mina", "other", "badsum", "undecodable"}
Addresses == [pk : Keys, enc : Encodings]
NoAddress == [pk |-> NoKey, enc |-> "undecodable"]     \* a zeroed buffer

generate_address(pk) == [pk |-> pk, enc |-> "mina"]

\* generate_keypair hardens the account: it sets the top bit of the index.
KeyOf(account) ==
    Derive[IF account < HardenedOffset THEN account + HardenedOffset ELSE account]

(***************************************************************************)
(* validate_address and read_public_key_compressed do not look at the      *)
(* result of b58_decode.  When it fails they read a local buffer nothing   *)
(* has written: the residue r stands for what the stack holds there, a     *)
(* content that passes the checksum or not, and some key.                  *)
(***************************************************************************)
Residues == [passes : BOOLEAN, key : Keys]

validate_address(a, r) ==
    \/ a.enc \in {"mina", "other"}
    \/ a.enc = "undecodable" /\ r.passes

read_public_key_compressed(a, r) == IF a.enc = "undecodable" THEN r.key ELSE a.pk

(***************************************************************************)
(* A payload is the 172 data bytes of a sign request.  Its memo is a text  *)
(* up to the first null byte and whatever follows it.                      *)
(***************************************************************************)
PAYMENT_TX    == 0
DELEGATION_TX == 4
TESTNET_ID    == 0
MAINNET_ID    == 1
PayloadLength == 172
Byte          == 0 .. 255

Payload == [account : Uint32, from : Addresses, to : Addresses,
            amount : Currency, fee : Currency, nonce : Uint32, valid_until : Uint32,
            memo : [text : Memos, rest : Memos], tag : Byte, network_id : Byte]

\* Unsigned addition of two amounts.
Plus(a, b) == IF a + b < CurrencyModulus THEN a + b ELSE a + b - CurrencyModulus

\* Slip: the sum of amount and fee is not checked.
parse_tx_noOverflowCheck(p, lc, r) ==
    IF      lc # 172                           THEN 0
    ELSE IF ~ validate_address(p.from, r)      THEN 1
    ELSE IF ~ validate_address(p.to, r)        THEN 2
    ELSE IF p.tag \notin {PAYMENT_TX, DELEGATION_TX}     THEN 4
    ELSE IF p.network_id \notin {TESTNET_ID, MAINNET_ID} THEN 5
    ELSE 6

(***************************************************************************)
(* How far parse_tx gets: 0 the length is wrong, 1 the from address is     *)
(* refused, 2 the to address, 3 the sum overflows, 4 the tag is unknown,   *)
(* 5 the network is unknown, 6 the request is accepted.                    *)
(***************************************************************************)
Accepted == 6
parse_tx(p, lc, r) ==
    IF      lc # PayloadLength                           THEN 0
    ELSE IF ~ validate_address(p.from, r)                THEN 1
    ELSE IF ~ validate_address(p.to, r)                  THEN 2
    ELSE IF Plus(p.amount, p.fee) < p.amount             THEN 3
    ELSE IF p.tag \notin {PAYMENT_TX, DELEGATION_TX}     THEN 4
    ELSE IF p.network_id \notin {TESTNET_ID, MAINNET_ID} THEN 5
    ELSE Accepted

Bit(n, i) == (n \div i) % 2 = 1
TagBits(tag) == <<Bit(tag, 1), Bit(tag, 2), Bit(tag, 4)>>

(***************************************************************************)
(* _tx: the transaction that will be signed.  The token fields are         *)
(* constants of the code (default token, not locked) and left out.         *)
(***************************************************************************)
Tx == [account : Uint32, source_pk : Keys, fee_payer_pk : Keys, receiver_pk : Keys,
       amount : Currency, fee : Currency, nonce : Uint32, valid_until : Uint32,
       memo : Memos, tag : Byte, tag_bits : BOOLEAN \X BOOLEAN \X BOOLEAN,
       network_id : Byte]

ZeroTx == [account |-> 0, source_pk |-> NoKey, fee_payer_pk |-> NoKey,
           receiver_pk |-> NoKey, amount |-> 0, fee |-> 0, nonce |-> 0,
           valid_until |-> 0, memo |-> NoMemo, tag |-> 0,
           tag_bits |-> <<FALSE, FALSE, FALSE>>, network_id |-> 0]

\* _tx after parsing p as far as stage, over what it held before.
WriteTx(old, p, stage, r) ==
    [account      |-> IF stage >= 1 THEN p.account ELSE old.account,
     source_pk    |-> IF stage >= 2 THEN read_public_key_compressed(p.from, r) ELSE old.source_pk,
     fee_payer_pk |-> IF stage >= 2 THEN read_public_key_compressed(p.from, r) ELSE old.fee_payer_pk,
     receiver_pk  |-> IF stage >= 3 THEN read_public_key_compressed(p.to, r) ELSE old.receiver_pk,
     amount       |-> IF stage >= 3 THEN p.amount ELSE old.amount,
     fee          |-> IF stage >= 3 THEN p.fee ELSE old.fee,
     nonce        |-> IF stage >= 4 THEN p.nonce ELSE old.nonce,
     valid_until  |-> IF stage >= 4 THEN p.valid_until ELSE old.valid_until,
     memo         |-> IF stage >= 4 THEN p.memo.text ELSE old.memo,
     tag          |-> IF stage >= 4 THEN p.tag ELSE old.tag,
     tag_bits     |-> IF stage >= 5 THEN TagBits(p.tag) ELSE old.tag_bits,
     network_id   |-> IF stage >= 5 THEN p.network_id ELSE old.network_id]

(***************************************************************************)
(* _ui: the texts of the review pages.  The type is written by             *)
(* handle_sign_tx after parsing, with the titles of the two address pages, *)
(* which follow it.                                                        *)
(***************************************************************************)
AmountTexts == {AmountText[v] : v \in Currency} \union {NoText}
ValueTexts  == {ValueText[v] : v \in Uint32} \union {NoText}

Ui == [type : {"Payment", "Delegation", NoText}, from : Addresses, to : Addresses,
       amount : AmountTexts, fee : AmountTexts, total : AmountTexts,
       nonce : ValueTexts, valid_until : ValueTexts, memo : Memos]

ZeroUi == [type |-> NoText, from |-> NoAddress, to |-> NoAddress, amount |-> NoText,
           fee |-> NoText, total |-> NoText, nonce |-> NoText,
           valid_until |-> NoText, memo |-> NoMemo]

TypeText(tag) == IF tag = PAYMENT_TX THEN "Payment" ELSE "Delegation"

WriteUi(old, p, stage) ==
    [type        |-> IF stage = Accepted THEN TypeText(p.tag) ELSE old.type,
     from        |-> IF stage >= 1 THEN p.from ELSE old.from,
     to          |-> IF stage >= 2 THEN p.to ELSE old.to,
     amount      |-> IF stage >= 3 THEN AmountText[p.amount] ELSE old.amount,
     fee         |-> IF stage >= 3 THEN AmountText[p.fee] ELSE old.fee,
     total       |-> IF stage >= 4 THEN AmountText[Plus(p.amount, p.fee)] ELSE old.total,
     nonce       |-> IF stage >= 4 THEN ValueText[p.nonce] ELSE old.nonce,
     valid_until |-> IF stage >= 4 THEN ValueText[p.valid_until] ELSE old.valid_until,
     memo        |-> IF stage >= 4 THEN p.memo.text ELSE old.memo]

(***************************************************************************)
(* The review: one of sixteen static flows, chosen by network, type,       *)
(* expiry and memo.  All list their steps in the order of Pos (below), so  *)
(* a flow is the set of its steps.                                         *)
(***************************************************************************)
ux_sign_tx_flow(tx, ui) ==
    {"topic", "type", "from", "to", "fee", "nonce", "approve", "reject"}
        \union (IF tx.network_id = MAINNET_ID THEN {} ELSE {"network"})
        \union (IF tx.tag = DELEGATION_TX THEN {} ELSE {"amount", "total"})
        \union (IF tx.valid_until = Forever THEN {} ELSE {"valid_until"})
        \union (IF ui.memo = NoMemo THEN {} ELSE {"memo"})

\* The pages of a review that show a text, and the text of each.
TextPages == {"network", "type", "from", "to", "amount", "fee", "total",
              "nonce", "valid_until", "memo"}

PageText(ui, page) == IF page = "network" THEN "testnet" ELSE ui[page]

(***************************************************************************)
(* What transaction_to_roinput puts under the signature.                   *)
(***************************************************************************)
transaction_to_roinput(tx) ==
    [source_pk |-> tx.source_pk, fee_payer_pk |-> tx.fee_payer_pk,
     receiver_pk |-> tx.receiver_pk, amount |-> tx.amount, fee |-> tx.fee,
     nonce |-> tx.nonce, valid_until |-> tx.valid_until, memo |-> tx.memo,
     tag_bits |-> tx.tag_bits]

Messages == [source_pk : Keys, fee_payer_pk : Keys, receiver_pk : Keys,
             amount : Currency, fee : Currency, nonce : Uint32,
             valid_until : Uint32, memo : Memos,
             tag_bits : BOOLEAN \X BOOLEAN \X BOOLEAN]
=============================================================================
