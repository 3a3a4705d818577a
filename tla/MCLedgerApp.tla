---------------------------- MODULE MCLedgerApp ----------------------------
(***************************************************************************)
(* LedgerApp on a small instance: two keys, 32-bit values cut down to two  *)
(* bits, amounts to two bits, and the payloads that take parse_tx to each  *)
(* of its exits and the review to its different shapes.                    *)
(***************************************************************************)
EXTENDS LedgerApp, TLC

MCDerive     == (2 :> "k1") @@ (3 :> "k2")
MCAmountText == (0 :> "0.0") @@ (1 :> "0.1") @@ (2 :> "0.2") @@ (3 :> "0.3")
MCValueText  == (0 :> "0") @@ (1 :> "1") @@ (2 :> "2") @@ (3 :> "3")

Mina(pk) == [pk |-> pk, enc |-> "mina"]

\* A testnet payment with nothing optional, from account 0.
PaymentTestnet ==
    [account |-> 0, from |-> Mina("k1"), to |-> Mina("k2"), amount |-> 2, fee |-> 1,
     nonce |-> 1, valid_until |-> 3, memo |-> [text |-> "", rest |-> ""],
     tag |-> 0, network_id |-> 0]

\* A mainnet payment with everything optional, from account 1.
PaymentMainnet ==
    [account |-> 1, from |-> Mina("k2"), to |-> [pk |-> "k1", enc |-> "other"],
     amount |-> 1, fee |-> 1, nonce |-> 0, valid_until |-> 1,
     memo |-> [text |-> "hi", rest |-> "ho"], tag |-> 0, network_id |-> 1]

Delegation == [PaymentMainnet EXCEPT !.tag = 4, !.amount = 0, !.network_id = 0]

\* The from address is that of another account: signing will fail.
Stranger == [PaymentTestnet EXCEPT !.account = 1]

\* One payload for each check of parse_tx that can fail after the length.
BadFrom    == [PaymentMainnet EXCEPT !.from = [pk |-> "k1", enc |-> "badsum"]]
BadTo      == [PaymentMainnet EXCEPT !.to = [pk |-> "k2", enc |-> "badsum"]]
Overflow   == [PaymentMainnet EXCEPT !.amount = 2, !.fee = 2]
BadTag     == [PaymentMainnet EXCEPT !.tag = 1]
BadNetwork == [PaymentMainnet EXCEPT !.network_id = 2]

\* The from or to address has a character outside the alphabet.
CorruptFrom == [PaymentTestnet EXCEPT !.from = [pk |-> "none", enc |-> "undecodable"]]
CorruptTo   == [PaymentTestnet EXCEPT !.to = [pk |-> "none", enc |-> "undecodable"]]

Apdu(ins, lc, data) == [rx |-> lc + 5, cla |-> 224, ins |-> ins, lc |-> lc, data |-> data]
SignApdu(p) == Apdu(3, 172, p)

\* APDUs app_main or handleApdu refuses: no bytes, too many, another class,
\* a length that lies, an instruction nobody handles.
Refused == {[rx |-> 0, cla |-> 224, ins |-> 1, lc |-> 0, data |-> 0],
            [rx |-> 261, cla |-> 224, ins |-> 1, lc |-> 0, data |-> 0],
            [rx |-> 5, cla |-> 0, ins |-> 1, lc |-> 0, data |-> 0],
            [rx |-> 6, cla |-> 224, ins |-> 1, lc |-> 0, data |-> 0],
            Apdu(9, 0, 0)}

Small == {Apdu(1, 0, 0), Apdu(2, 4, 0), Apdu(2, 4, 1), Apdu(2, 4, 3), Apdu(2, 3, 0),
          Apdu(4, 0, 0), Apdu(4, 1, 0)}

Reviewable == {PaymentTestnet, PaymentMainnet, Delegation, Stranger}
Unreadable == {BadFrom, BadTo, Overflow, BadNetwork}

AllApdus == Refused \union Small \union {Apdu(3, 171, PaymentTestnet)}
              \union {SignApdu(p) : p \in {PaymentTestnet, Delegation, Stranger, BadTo, BadTag}}

\* A host that does not wait: two reviews and what can cut into them.
BusyApdus == {Apdu(1, 0, 0), Apdu(9, 0, 0), Apdu(2, 4, 1), Apdu(2, 3, 0), Apdu(4, 0, 0)}
               \union {SignApdu(p) : p \in Reviewable \union Unreadable}

FewApdus == {Apdu(1, 0, 0), Apdu(2, 4, 1), Apdu(4, 0, 0)}
              \union {SignApdu(p) : p \in {PaymentTestnet, Delegation, Stranger, BadTo, BadNetwork}}

CorruptApdus == {SignApdu(CorruptFrom), SignApdu(CorruptTo), SignApdu(PaymentTestnet)}
=============================================================================
