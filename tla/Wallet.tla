------------------------------- MODULE Wallet -------------------------------
(***************************************************************************)
(* The send-payment and delegate commands of utils/mina_ledger_wallet.py.  *)
(*                                                                         *)
(* Online, the wallet asks a Rosetta node for the network, the nonce and   *)
(* fee, the balance, an unsigned transaction, a signed one, and to submit  *)
(* it; between these it asks the user to go on and the device to sign.  It *)
(* does not trust the node: what the node builds is compared with what the *)
(* user asked for.  Offline it asks nothing but the user and the device,   *)
(* and prints the signed transaction.  An action is one answer, of the     *)
(* node, the user or the device, and everything the wallet does with it up *)
(* to its next question.                                                   *)
(*                                                                         *)
(* The device is the app of LedgerApp as its host knows it: one answer to  *)
(* one request, an error or a signature over the request as parsed.        *)
(***************************************************************************)
EXTENDS ParseTx

CONSTANTS
    Commands,     \* the command lines considered
    Networks,     \* network names
    MainnetNames, \* "mainnet" and the names that start with "mainnet-"
    Debug,        \* the name in NETWORK before any answer
    Mainnet,      \* the name used offline
    Fees,         \* fees a node may suggest or require
    Balances,     \* balances it may report
    MemoBytes,    \* how many bytes a memo padded to 32 characters takes
    Absent        \* an option not given, null in JSON, "" in the code

ASSUME WalletAssumption ==
    /\ MainnetNames \subseteq Networks /\ {Debug, Mainnet} \subseteq Networks
    /\ Mainnet \in MainnetNames
    /\ Fees \subseteq Currency
    /\ MemoBytes \in [Memos -> Nat]

\* What argparse makes of a command line: any number, or none.
ASSUME CommandAssumption == \A c \in Commands :
    /\ c.op \in {"send-payment", "delegate"}
    /\ c.from \in Addresses /\ c.to \in Addresses /\ c.amount \in Int
    /\ \A option \in {c.fee, c.nonce, c.valid_until} : option \in Int \union {Absent}
    /\ c.memo \in Memos \union {Absent} /\ c.network \in Networks \union {Absent}

VARIABLES
    pc,        \* the answer the wallet waits for, or how it ended
    args,      \* the command line
    chain,     \* the blockchain the node serves
    dongle,    \* DONGLE is set
    NETWORK,   \* the global of that name
    tx,        \* the parameters of the transaction: sender, receiver, amount ...
    limits,    \* minimum_fee and balance, as the node tells them
    unsigned,  \* the node's unsigned transaction, with the wallet's overrides
    signature, \* the device's answer
    signed,    \* the node's signed payload, with the wallet's overrides
    confirmed, \* what print_transaction showed whenever the user said y
    sent       \* what was submitted to the node or printed

fixed    == <<args, chain>>
outcome  == <<signature, signed, sent>>
vars     == <<pc, args, chain, dongle, NETWORK, tx, limits, unsigned, signature, signed,
              confirmed, sent>>

Nothing == [op |-> Absent]
Ended   == {"submitted", "printed", "stopped", "rejected", "refused", "exception"}

network_id_from_string(name) == IF name \in MainnetNames THEN MAINNET_ID ELSE TESTNET_ID
tx_type_from_op(op) == IF op = "delegate" THEN DELEGATION_TX ELSE PAYMENT_TX
Given(option, default) == IF option = Absent THEN default ELSE option

----------------------------------------------------------------------------
Init ==
    /\ pc = "start"
    /\ args \in Commands
    /\ chain \in {"coda", "mina", "other"}
    /\ dongle = FALSE
    /\ NETWORK = Debug
    /\ tx = Nothing
    /\ limits = [minimum_fee |-> 0, balance |-> 0]
    /\ unsigned = Nothing
    /\ signature = Nothing
    /\ signed = Nothing
    /\ confirmed = {}
    /\ sent = {}

\* The wallet prints why and exits.
End(how) ==
    /\ pc' = how
    /\ UNCHANGED <<fixed, dongle, NETWORK, tx, limits, unsigned, confirmed, outcome>>

\* ledger_init: with the app closed it says so and the command goes on.
ledger_init == dongle' \in BOOLEAN

\* Slip: the fee is the option, given or not.
UserTx_optionalFee(fee, nonce) ==
    [op |-> args.op, account |-> args.account, from |-> args.from, to |-> args.to,
     amount |-> IF args.op = "delegate" THEN 0 ELSE args.amount,
     fee |-> args.fee, nonce |-> nonce, valid_until |-> args.valid_until,
     memo |-> Given(args.memo, NoMemo)]

\* The parameters of the transaction; a delegation has no amount.
UserTx(fee, nonce) ==
    [op |-> args.op, account |-> args.account, from |-> args.from, to |-> args.to,
     amount |-> IF args.op = "delegate" THEN 0 ELSE args.amount,
     fee |-> fee, nonce |-> nonce, valid_until |-> args.valid_until,
     memo |-> Given(args.memo, NoMemo)]

StartOnline ==
    /\ pc = "start" /\ ~ args.offline
    /\ ledger_init
    /\ pc' = "network"
    /\ UNCHANGED <<fixed, NETWORK, tx, limits, unsigned, confirmed, outcome>>

\* Offline there is no node to tell the fee and the nonce.
StartOffline ==
    /\ pc = "start" /\ args.offline
    /\ args.fee # Absent /\ args.nonce # Absent
    /\ ledger_init
    /\ NETWORK' = Given(args.network, Mainnet)
    /\ tx' = UserTx(args.fee, args.nonce)
    /\ pc' = "confirm"
    /\ UNCHANGED <<fixed, limits, unsigned, confirmed, outcome>>

\* No device that answers, or an option missing offline.
StartFails == pc = "start" /\ End("refused")

----------------------------------------------------------------------------
(* Answers of the node. *)

Questions == {"network", "metadata", "balance", "payloads", "parse", "combine",
              "parse signed", "submit"}

\* An answer without the fields the wallet looks for, or none.
NodeFails == pc \in Questions /\ End("refused")

\* Any blockchain but "coda" ends the command; for "mina" the test itself
\* fails, on a name misspelt.
rosetta_network_request ==
    /\ pc = "network"
    /\ \/ /\ chain = "coda"
          /\ \E name \in Networks : NETWORK' = Given(args.network, name)
          /\ pc' = "metadata"
          /\ UNCHANGED <<fixed, dongle, tx, limits, unsigned, confirmed, outcome>>
       \/ chain # "coda" /\ End("exception")

\* Slip: a fee given on the command line is not held against the minimum.
rosetta_metadata_request_anyFee ==
    \E nonce \in Uint32, suggested \in Fees, minimum \in Fees :
        /\ pc = "metadata"
        /\ suggested >= minimum
        /\ tx' = UserTx(Given(args.fee, suggested), Given(args.nonce, nonce))
        /\ limits' = [limits EXCEPT !.minimum_fee = minimum]
        /\ pc' = "balance"
        /\ UNCHANGED <<fixed, dongle, NETWORK, unsigned, confirmed, outcome>>

\* Nonce and fee as given or as the node tells them; the fee is at least the
\* minimum.
rosetta_metadata_request ==
    \E nonce \in Uint32, suggested \in Fees, minimum \in Fees :
        LET fee == Given(args.fee, suggested)
        IN  /\ pc = "metadata"
            /\ \/ /\ suggested >= minimum /\ fee >= minimum
                  /\ tx' = UserTx(fee, Given(args.nonce, nonce))
                  /\ limits' = [limits EXCEPT !.minimum_fee = minimum]
                  /\ pc' = "balance"
                  /\ UNCHANGED <<fixed, dongle, NETWORK, unsigned, confirmed, outcome>>
               \/ (suggested < minimum \/ fee < minimum) /\ End("refused")

rosetta_balance_request == \E balance \in Balances :
    /\ pc = "balance"
    /\ \/ /\ tx.amount + tx.fee <= balance
          /\ limits' = [limits EXCEPT !.balance = balance]
          /\ pc' = "confirm"
          /\ UNCHANGED <<fixed, dongle, NETWORK, tx, unsigned, confirmed, outcome>>
       \/ tx.amount + tx.fee > balance /\ End("stopped")

\* A transaction as the node writes it down: every number a text, an expiry or
\* a memo that is not set null.
Json(t, valid_until, memo) ==
    [op |-> t.op, from |-> t.from, to |-> t.to, amount |-> t.amount, fee |-> t.fee,
     nonce |-> t.nonce, valid_until |-> valid_until, memo |-> memo]

\* What a node may make of j: at most one field is another.
Altered(j) ==
    {j, [j EXCEPT !.from = j.to], [j EXCEPT !.to = j.from],
     [j EXCEPT !.fee = Plus(@, 1)], [j EXCEPT !.nonce = (@ + 1) % (Forever + 1)]}
    \union {[j EXCEPT !.amount = a] : a \in IF j.op = "delegate" THEN {j.amount} ELSE {Plus(j.amount, 1)}}
    \union {[j EXCEPT !.valid_until = v] : v \in {Absent, 0, Forever}}
    \union {[j EXCEPT !.memo = m] : m \in Memos}

\* Without --valid_until the transaction expires when the node says; an expiry
\* or a memo of the user replaces the node's.  Neither is part of the request.
rosetta_payloads_request ==
    /\ pc = "payloads"
    /\ \E j \in Altered(Json(tx, Absent, Absent)) :
        /\ unsigned' = [j EXCEPT !.valid_until = Given(tx.valid_until, @),
                                 !.memo = IF tx.memo = NoMemo THEN @ ELSE tx.memo]
        /\ tx' = [tx EXCEPT !.valid_until = Given(@, Given(j.valid_until, Forever))]
    /\ pc' = "parse"
    /\ UNCHANGED <<fixed, dongle, NETWORK, limits, confirmed, outcome>>

\* The transaction of the node is the one the user asked for.
check_tx(j, t) ==
    /\ j.from = t.from /\ j.to = t.to
    /\ t.op = "send-payment" => j.amount = t.amount
    /\ j.fee = t.fee
    /\ t.valid_until = Given(j.valid_until, Forever)
    /\ j.nonce = t.nonce
    /\ t.memo = Given(j.memo, NoMemo)

\* The node parses its own transaction, then the wallet compares it.
rosetta_parse_request ==
    /\ pc = "parse"
    /\ \/ /\ check_tx(unsigned, tx)
          /\ pc' = "sign"
          /\ UNCHANGED <<fixed, dongle, NETWORK, tx, limits, unsigned, confirmed, outcome>>
       \/ ~ check_tx(unsigned, tx) /\ End("refused")

----------------------------------------------------------------------------
(* Answers of the user. *)

\* What print_transaction shows: only a testnet, an expiry or a memo that is set.
print_transaction(j, valid_until) ==
    [network_id |-> network_id_from_string(NETWORK), account |-> tx.account, op |-> j.op,
     from |-> j.from, to |-> j.to, amount |-> j.amount, fee |-> j.fee, nonce |-> j.nonce,
     valid_until |-> valid_until, memo |-> tx.memo]

\* Slip: a transaction that never expires offline is signed to expire at once.
Confirm_expiresAtOnce ==
    /\ pc = "confirm"
    /\ confirmed' = confirmed \union {print_transaction(tx, tx.valid_until)}
    /\ tx' = [tx EXCEPT !.valid_until = IF args.offline THEN Given(@, 0) ELSE @]
    /\ pc' = IF args.offline THEN "sign" ELSE "payloads"
    /\ UNCHANGED <<fixed, dongle, NETWORK, limits, unsigned, outcome>>

\* The first "Continue?".
Confirm ==
    /\ pc = "confirm"
    /\ confirmed' = confirmed \union {print_transaction(tx, tx.valid_until)}
    /\ tx' = [tx EXCEPT !.valid_until = IF args.offline THEN Given(@, Forever) ELSE @]
    /\ pc' = IF args.offline THEN "sign" ELSE "payloads"
    /\ UNCHANGED <<fixed, dongle, NETWORK, limits, unsigned, outcome>>

\* The second one, for the transaction that came back signed: it goes to the
\* node at once, whatever becomes of the answer.
ConfirmSend ==
    /\ pc = "confirm send"
    /\ confirmed' = confirmed \union {print_transaction(signed.tx, tx.valid_until)}
    /\ sent' = {[network |-> NETWORK, tx |-> signed.tx, signature |-> signed.signature]}
    /\ pc' = "submit"
    /\ UNCHANGED <<fixed, dongle, NETWORK, tx, limits, unsigned, signature, signed>>

Decline == pc \in {"confirm", "confirm send"} /\ End("stopped")

----------------------------------------------------------------------------
(* Answers of the device. *)

\* The payload ledger_sign_tx writes out.
SignRequest ==
    [account |-> tx.account, from |-> tx.from, to |-> tx.to, amount |-> tx.amount,
     fee |-> tx.fee, nonce |-> tx.nonce, valid_until |-> tx.valid_until,
     memo |-> [text |-> tx.memo, rest |-> NoMemo],
     tag |-> tx_type_from_op(tx.op), network_id |-> network_id_from_string(NETWORK)]

\* An expiry of the node is a text still, which '{:08x}' does not take.
TextExpiry == ~ args.offline /\ args.valid_until = Absent /\ unsigned.valid_until # Absent

\* The request can be written out in hexadecimal digits, two to a byte: no
\* number has a sign or too many digits, and one byte holds the length.
RequestLength == PayloadLength - 32 + MemoBytes[tx.memo]
Writable ==
    /\ ~ TextExpiry
    /\ tx.amount \in Currency /\ tx.fee \in Currency
    /\ tx.nonce \in Uint32 /\ tx.valid_until \in Uint32
    /\ RequestLength <= 255

\* The device takes the request, its user approves and the account is the sender's.
Approves(r) ==
    /\ parse_tx(SignRequest, RequestLength, r) = Accepted
    /\ tx.from = generate_address(KeyOf(tx.account))

\* The signature: two halves of 32 bytes, each its most significant byte first.
SignatureOf(r) ==
    LET device == WriteTx(ZeroTx, SignRequest, Accepted, r)
    IN  [op |-> tx.op, signer |-> KeyOf(tx.account), message |-> transaction_to_roinput(device),
         network_id |-> device.network_id, bytes |-> "big end first"]

re_encode_raw_signature(s) == [s EXCEPT !.bytes = "little end first"]

\* Offline the signature is printed with the parameters it was asked for.
ledger_sign_tx == \E r \in Residues :
    /\ pc = "sign" /\ dongle /\ Writable /\ Approves(r)
    /\ signature' = SignatureOf(r)
    /\ IF args.offline
       THEN /\ sent' = {[network |-> NETWORK, signature |-> re_encode_raw_signature(SignatureOf(r)),
                         tx |-> Json(tx, tx.valid_until, IF tx.memo = NoMemo THEN Absent ELSE tx.memo)]}
            /\ pc' = "printed"
       ELSE pc' = "combine" /\ UNCHANGED sent
    /\ UNCHANGED <<fixed, dongle, NETWORK, tx, limits, unsigned, signed, confirmed>>

\* The user of the device rejects: the wallet says "rejected" and exits with 0.
DeviceRejects ==
    /\ pc = "sign" /\ dongle /\ Writable
    /\ \E r \in Residues : parse_tx(SignRequest, RequestLength, r) = Accepted
    /\ End("rejected")

\* Any other error of the device.
DeviceRefuses == pc = "sign" /\ dongle /\ Writable /\ End("refused")

\* There is no device, or no request to send it.
SignFails == pc = "sign" /\ ~ (dongle /\ Writable) /\ End("exception")

----------------------------------------------------------------------------
(* The signed transaction. *)

\* A signature the node made up: it verifies under no key.
Forged == [signature EXCEPT !.signer = NoKey]

\* The wallet writes its expiry and memo over the node's once more.
rosetta_combine_request ==
    /\ pc = "combine"
    /\ \E j \in Altered(unsigned), s \in {signature, Forged} :
        signed' = [tx |-> [j EXCEPT !.valid_until = tx.valid_until,
                                    !.memo = IF tx.memo = NoMemo THEN @ ELSE tx.memo],
                   signature |-> s]
    /\ pc' = "parse signed"
    /\ UNCHANGED <<fixed, dongle, NETWORK, tx, limits, unsigned, signature, confirmed, sent>>

\* Slip: the signature that comes back is not compared.
ParseSigned_anySignature ==
    /\ pc = "parse signed"
    /\ \/ /\ check_tx(signed.tx, tx)
          /\ pc' = "confirm send"
          /\ UNCHANGED <<fixed, dongle, NETWORK, tx, limits, unsigned, confirmed, outcome>>
       \/ ~ check_tx(signed.tx, tx) /\ End("refused")

\* The node parses the signed transaction, then the wallet compares again.
ParseSigned ==
    /\ pc = "parse signed"
    /\ \/ /\ check_tx(signed.tx, tx) /\ signed.signature = signature
          /\ pc' = "confirm send"
          /\ UNCHANGED <<fixed, dongle, NETWORK, tx, limits, unsigned, confirmed, outcome>>
       \/ ~ (check_tx(signed.tx, tx) /\ signed.signature = signature) /\ End("refused")

rosetta_submit_request == pc = "submit" /\ End("submitted")

Next ==
    \/ StartOnline \/ StartOffline \/ StartFails
    \/ NodeFails
    \/ rosetta_network_request \/ rosetta_metadata_request \/ rosetta_balance_request
    \/ rosetta_payloads_request \/ rosetta_parse_request
    \/ Confirm \/ ConfirmSend \/ Decline
    \/ ledger_sign_tx \/ DeviceRejects \/ DeviceRefuses \/ SignFails
    \/ rosetta_combine_request \/ ParseSigned \/ rosetta_submit_request

Spec == Init /\ [][Next]_vars

----------------------------------------------------------------------------
JsonTx == [op : {"send-payment", "delegate"}, from : Addresses, to : Addresses,
           amount : Int, fee : Int, nonce : Int, valid_until : Int \union {Absent},
           memo : Memos \union {Absent}]

\* Each value of the wallet is of the kind the code gives it.
TypeOK ==
    /\ pc \in Questions \union Ended \union {"start", "confirm", "sign", "confirm send"}
    /\ args \in Commands
    /\ NETWORK \in Networks
    /\ tx = Nothing \/ Json(tx, tx.valid_until, tx.memo) \in JsonTx
    /\ unsigned = Nothing \/ unsigned \in JsonTx
    /\ signed = Nothing \/ signed.tx \in JsonTx
    /\ \A s \in sent : s.network \in Networks /\ s.tx \in JsonTx

\* The message that a transaction written down as j puts under a signature.
MessageOf(j) ==
    [source_pk |-> j.from.pk, fee_payer_pk |-> j.from.pk, receiver_pk |-> j.to.pk,
     amount |-> j.amount, fee |-> j.fee, nonce |-> j.nonce,
     valid_until |-> Given(j.valid_until, Forever), memo |-> Given(j.memo, NoMemo),
     tag_bits |-> TagBits(tx_type_from_op(j.op))]

(***************************************************************************)
(* What the wallet sends on is what the device signed: the transaction it  *)
(* submits or prints, whatever the node made of it twice on the way, is    *)
(* the one under the signature it goes with, for the network it is meant   *)
(* for; a submitted signature is in the device's byte order, a printed one *)
(* in the other (check_tx, and the overrides applied before both calls).   *)
(***************************************************************************)
SentAsSigned == \A s \in sent :
    /\ s.signature.message = MessageOf(s.tx)
    /\ s.signature.network_id = network_id_from_string(s.network)
    /\ s.signature.signer = s.tx.from.pk
    /\ s.signature.bytes = "little end first" <=> args.offline

(***************************************************************************)
(* The device signs what every prompt of the wallet showed: a field that   *)
(* was shown is signed as it was, and an expiry or a memo that was not is  *)
(* not there (print_transaction against ledger_sign_tx, with the parts     *)
(* that the node fills in between).                                        *)
(***************************************************************************)
SignedAsConfirmed == signature # Nothing =>
    /\ confirmed # {}
    /\ \A c \in confirmed :
           /\ signature.message = MessageOf(c)
           /\ signature.network_id = c.network_id
           /\ signature.signer = KeyOf(c.account)

(***************************************************************************)
(* No node, and no --fee, gets a transaction signed whose fee is below the *)
(* minimum the same node told, or that the balance it told cannot pay      *)
(* (the two limits are read in different answers and used in a third).     *)
(***************************************************************************)
SignedIsAffordable == signature # Nothing /\ ~ args.offline =>
    /\ signature.message.fee >= limits.minimum_fee
    /\ signature.message.amount + signature.message.fee <= limits.balance

(***************************************************************************)
(* "Load valid_until" (lines 1014 to 1018): an expiry that the node sets,  *)
(* with a device ready, is signed or refused like any other.               *)
(***************************************************************************)
NodeExpiryIsUsable ==
    [][pc = "sign" /\ dongle /\ TextExpiry => pc' # "exception"]_vars
=============================================================================
