------------------------------ MODULE MCWallet ------------------------------
(***************************************************************************)
(* Wallet on a small instance: amounts and 32-bit values of two bits, a    *)
(* memo with a wide character ("wide", one that takes 33 bytes, and        *)
(* "wider", one that takes 116), and command lines with every option set,  *)
(* none set, and set to what argparse lets through.                        *)
(***************************************************************************)
EXTENDS Wallet, TLC

MCDerive     == (2 :> "k1") @@ (3 :> "k2")
MCAmountText == (0 :> "0.0") @@ (1 :> "0.1") @@ (2 :> "0.2") @@ (3 :> "0.3")
MCValueText  == (0 :> "0") @@ (1 :> "1") @@ (2 :> "2") @@ (3 :> "3")
MCMemoBytes  == ("" :> 32) @@ ("hi" :> 32) @@ ("wide" :> 33) @@ ("wider" :> 116)

Payment ==
    [op |-> "send-payment", offline |-> FALSE, account |-> 0,
     from |-> [pk |-> "k1", enc |-> "mina"], to |-> [pk |-> "k2", enc |-> "mina"],
     amount |-> 1, fee |-> Absent, nonce |-> Absent, valid_until |-> Absent,
     memo |-> Absent, network |-> Absent]

Full == [Payment EXCEPT !.fee = 1, !.nonce = 2, !.valid_until = 1, !.memo = "hi", !.network = "mainnet"]

Delegation == [Full EXCEPT !.op = "delegate", !.network = Absent]

\* The address is not that of the account; an amount the fee takes past the width.
Stranger == [Payment EXCEPT !.account = 1]
TooMuch  == [Full EXCEPT !.amount = 3]

\* Let through by argparse: a negative expiry, and any number for a delegation.
Negative    == [Full EXCEPT !.valid_until = -1]
LongNumbers == [Delegation EXCEPT !.fee = 4, !.nonce = 4]

Wide == {[Payment EXCEPT !.memo = "wide"], [Payment EXCEPT !.memo = "wider"]}

Online == {Payment, Full, Delegation, Stranger, TooMuch, Negative, LongNumbers} \union Wide

Offline == {[c EXCEPT !.offline = TRUE] : c \in Online}
               \union {[Payment EXCEPT !.offline = TRUE, !.fee = 1, !.nonce = 0]}

MCCommands == Online \union Offline
=============================================================================
