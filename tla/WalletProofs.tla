---------------------------- MODULE WalletProofs ----------------------------
(***************************************************************************)
(* Theorems about Wallet, for every set of command lines, keys, amounts    *)
(* and names, and whatever the node answers.                               *)
(***************************************************************************)
EXTENDS Wallet, TLAPS

(* The receiver the user types is an address; an option that is not given  *)
(* is told from every value.                                               *)
UsualCommands ==
    /\ Absent \notin Uint32 \union Memos
    /\ \A c \in Commands : c.op \in {"send-payment", "delegate"} /\ c.to.enc # "undecodable"

IsTx(t) ==
    t = [op |-> t.op, account |-> t.account, from |-> t.from, to |-> t.to, amount |-> t.amount,
         fee |-> t.fee, nonce |-> t.nonce, valid_until |-> t.valid_until, memo |-> t.memo]
IsJson(j) == j = Json(j, j.valid_until, j.memo)
IsLimits  == limits = [minimum_fee |-> limits.minimum_fee, balance |-> limits.balance]

----------------------------------------------------------------------------
(* What the parts of the state say of each other.                          *)
Building == {"confirm", "payloads", "parse", "sign"}
After    == {"combine", "parse signed", "confirm send", "submit"}
HasTx    == {"balance"} \union Building \union After
Prompt1  == {"payloads", "parse", "sign"} \union After    \* the first prompt is past

Online == pc \in Questions \union {"confirm send"} => ~ args.offline

AsAsked == pc \in HasTx =>
    IsTx(tx) /\ tx.op = args.op /\ tx.to = args.to /\ tx.memo # Absent

Expiry ==
    /\ pc \in {"balance", "confirm", "payloads"} => tx.valid_until = args.valid_until
    /\ pc \in {"parse", "sign"} =>
           tx.valid_until = Given(args.valid_until,
                                  IF args.offline THEN Forever ELSE Given(unsigned.valid_until, Forever))

\* check_tx does not compare the kind, nor the amount of a delegation.
SameKind(j) == IsJson(j) /\ j.op = tx.op /\ (tx.op # "send-payment" => j.amount = tx.amount)
NodeTx ==
    /\ pc \in {"parse", "sign", "combine"} /\ ~ args.offline => SameKind(unsigned)
    /\ pc \in {"parse signed", "confirm send"} => SameKind(signed.tx)

Compared == pc = "confirm send" => check_tx(signed.tx, tx) /\ signed.signature = signature

AskedMessage ==
    [source_pk |-> tx.from.pk, fee_payer_pk |-> tx.from.pk, receiver_pk |-> tx.to.pk,
     amount |-> tx.amount, fee |-> tx.fee, nonce |-> tx.nonce, valid_until |-> tx.valid_until,
     memo |-> tx.memo, tag_bits |-> TagBits(tx_type_from_op(tx.op))]
SignedAsAsked ==
    /\ signature.message = AskedMessage
    /\ signature.network_id = network_id_from_string(NETWORK)
    /\ signature.signer = KeyOf(tx.account) /\ signature.signer = tx.from.pk
    /\ signature.bytes = "big end first"
    /\ tx.valid_until = Given(args.valid_until, Forever) /\ tx.valid_until # Absent
    /\ tx.memo # Absent
Signed ==
    /\ pc \in {"start", "network", "metadata", "balance"} \union Building => signature = Nothing
    /\ pc \in After => SignedAsAsked
    /\ signature # Nothing => SignedAsAsked

Shows(c) ==
    /\ c.network_id = network_id_from_string(NETWORK) /\ c.account = tx.account
    /\ c.op = tx.op /\ c.from = tx.from /\ c.to = tx.to /\ c.amount = tx.amount /\ c.fee = tx.fee
    /\ c.nonce = tx.nonce /\ c.memo = tx.memo
    /\ c.valid_until \in {args.valid_until, Given(args.valid_until, Forever)}
Prompted ==
    /\ \A c \in confirmed : Shows(c)
    /\ pc \in {"start", "network", "metadata", "balance", "confirm"} => confirmed = {}
    /\ pc \in Prompt1 \/ signature # Nothing => confirmed # {}

Affordable ==
    /\ IsLimits
    /\ pc \in HasTx /\ ~ args.offline => tx.fee >= limits.minimum_fee
    /\ pc \in HasTx \ {"balance"} /\ ~ args.offline => tx.amount + tx.fee <= limits.balance
    /\ signature # Nothing /\ ~ args.offline =>
           tx.fee >= limits.minimum_fee /\ tx.amount + tx.fee <= limits.balance

WInv == /\ args \in Commands
        /\ Online /\ AsAsked /\ Expiry /\ NodeTx /\ Compared /\ Signed /\ Prompted /\ Affordable
        /\ SentAsSigned

----------------------------------------------------------------------------
LEMMA GivenValue ==
    \A option, default : /\ option # Absent => Given(option, default) = option
                         /\ Given(Absent, default) = default
BY DEF Given

LEMMA StagesApart ==
    /\ Ended \intersect (HasTx \union Questions \union {"start", "confirm send"}) = {}
    /\ After \intersect ({"start", "network", "metadata", "balance"} \union Building) = {}
BY DEF Ended, HasTx, Questions, After, Building

(* An end leaves everything as it was.                                     *)
LEMMA EndKeeps ==
    ASSUME WInv, NEW how \in Ended, End(how)
    PROVE  WInv'
<1>1. UNCHANGED <<args, chain, dongle, NETWORK, tx, limits, unsigned, confirmed, signature, signed, sent>>
    BY DEF End, fixed, outcome
<1>2. pc' \in Ended
    BY DEF End
<1>3. Online' /\ AsAsked' /\ Expiry' /\ NodeTx' /\ Compared'
    BY <1>2 DEF Ended, Online, AsAsked, Expiry, NodeTx, Compared, HasTx, Questions, Building, After
<1>4. Signed'
    BY <1>1, <1>2 DEF WInv, Signed, SignedAsAsked, AskedMessage, Ended, Building, After
<1>5. Prompted'
    BY <1>1, <1>2 DEF WInv, Prompted, Shows, Prompt1, Ended, Building, After
<1>6. Affordable'
    BY <1>1, <1>2 DEF WInv, Affordable, IsLimits, HasTx, Ended, Building, After
<1>7. SentAsSigned'
    BY <1>1 DEF WInv, SentAsSigned
<1> QED BY <1>1, <1>3, <1>4, <1>5, <1>6, <1>7 DEF WInv

(* A step before the device has signed: what is said of the signature and  *)
(* of what was sent stays said.                                            *)
LEMMA NotSignedYet ==
    ASSUME WInv, UNCHANGED <<fixed, outcome>>,
           pc \in {"start", "network", "metadata", "balance"} \union Building,
           pc' \in {"network", "metadata", "balance"} \union Building
    PROVE  Signed' /\ SentAsSigned' /\ Compared' /\ args' \in Commands /\ signature' = Nothing
<1>1. signature = Nothing /\ signature' = Nothing
    BY DEF WInv, Signed, outcome
<1>2. Signed' /\ Compared'
    BY <1>1 DEF Signed, Compared, Building, After
<1>3. SentAsSigned' /\ args' \in Commands
    BY DEF WInv, SentAsSigned, fixed, outcome
<1> QED BY <1>1, <1>2, <1>3

LEMMA Start ==
    ASSUME UsualCommands, WInv, StartOnline \/ StartOffline
    PROVE  WInv'
<1>1. Signed' /\ SentAsSigned' /\ Compared' /\ args' \in Commands /\ signature' = Nothing
    BY NotSignedYet DEF StartOnline, StartOffline, Building
<1>2. CASE StartOnline
  <2>1. Online' /\ AsAsked' /\ Expiry' /\ NodeTx' /\ Prompted' /\ Affordable'
      BY <1>1, <1>2 DEF StartOnline, WInv, Online, AsAsked, Expiry, NodeTx, Prompted, Affordable,
         IsLimits, Questions, HasTx, Building, After, Prompt1, fixed
  <2> QED BY <1>1, <2>1 DEF WInv
<1>3. CASE StartOffline
  <2>1. /\ pc = "start" /\ pc' = "confirm" /\ args.offline /\ tx' = UserTx(args.fee, args.nonce)
        /\ UNCHANGED <<args, limits, confirmed>>
      BY <1>3 DEF StartOffline, fixed
  <2>2. NoMemo # Absent
      BY MemoAssumption DEF UsualCommands
  <2>3. /\ tx'.op = args.op /\ tx'.to = args.to /\ tx'.memo # Absent /\ IsTx(tx')
        /\ tx'.valid_until = args.valid_until
      BY <2>1, <2>2 DEF UserTx, Given, IsTx
  <2>4. AsAsked'
      BY <2>1, <2>3 DEF AsAsked, IsTx
  <2>5. Online' /\ Expiry' /\ NodeTx'
      BY <2>1, <2>3 DEF Online, Expiry, NodeTx, Questions
  <2>6. Prompted' /\ Affordable'
      BY <1>1, <2>1 DEF WInv, Prompted, Affordable, IsLimits, Prompt1, After
  <2> QED BY <1>1, <2>4, <2>5, <2>6 DEF WInv
<1> QED BY <1>2, <1>3

----------------------------------------------------------------------------
(* Answers of the node before the first prompt.                            *)
LEMMA FirstAnswers ==
    ASSUME UsualCommands, WInv,
           rosetta_network_request \/ rosetta_metadata_request \/ rosetta_balance_request
    PROVE  WInv'
<1>a. ~ args.offline
    BY DEF WInv, Online, Questions, rosetta_network_request, rosetta_metadata_request,
       rosetta_balance_request
<1>b. "exception" \in Ended /\ "refused" \in Ended /\ "stopped" \in Ended
    BY DEF Ended
<1>1. CASE rosetta_network_request
  <2>1. CASE End("exception")
      BY <1>b, <2>1, EndKeeps
  <2>2. CASE pc' = "metadata" /\ UNCHANGED <<fixed, dongle, tx, limits, unsigned, confirmed, outcome>>
    <3>1. Signed' /\ SentAsSigned' /\ Compared' /\ args' \in Commands /\ signature' = Nothing
        BY <1>1, <2>2, NotSignedYet DEF rosetta_network_request
    <3>2. Online' /\ AsAsked' /\ Expiry' /\ NodeTx'
        BY <1>a, <2>2 DEF Online, AsAsked, Expiry, NodeTx, HasTx, Building, After, fixed
    <3>3. Prompted' /\ Affordable'
        BY <1>1, <2>2, <3>1 DEF rosetta_network_request, WInv, Prompted, Affordable, IsLimits,
           HasTx, Building, After, Prompt1
    <3> QED BY <3>1, <3>2, <3>3 DEF WInv
  <2> QED BY <1>1, <2>1, <2>2 DEF rosetta_network_request
<1>2. CASE rosetta_metadata_request
  <2>1. PICK nonce \in Uint32, suggested \in Fees, minimum \in Fees :
          /\ pc = "metadata"
          /\ \/ /\ suggested >= minimum /\ Given(args.fee, suggested) >= minimum
                /\ tx' = UserTx(Given(args.fee, suggested), Given(args.nonce, nonce))
                /\ limits' = [limits EXCEPT !.minimum_fee = minimum]
                /\ pc' = "balance"
                /\ UNCHANGED <<fixed, dongle, NETWORK, unsigned, confirmed, outcome>>
             \/ End("refused")
      BY <1>2 DEF rosetta_metadata_request
  <2>2. CASE End("refused")
      BY <1>b, <2>2, EndKeeps
  <2>3. CASE /\ Given(args.fee, suggested) >= minimum
             /\ tx' = UserTx(Given(args.fee, suggested), Given(args.nonce, nonce))
             /\ limits' = [limits EXCEPT !.minimum_fee = minimum]
             /\ pc' = "balance"
             /\ UNCHANGED <<fixed, dongle, NETWORK, unsigned, confirmed, outcome>>
    <3>1. Signed' /\ SentAsSigned' /\ Compared' /\ args' \in Commands /\ signature' = Nothing
        BY <2>1, <2>3, NotSignedYet
    <3>2. NoMemo # Absent
        BY MemoAssumption DEF UsualCommands
    <3>3. /\ tx'.op = args.op /\ tx'.to = args.to /\ tx'.memo # Absent /\ IsTx(tx')
          /\ tx'.valid_until = args.valid_until /\ tx'.fee = Given(args.fee, suggested)
          /\ UNCHANGED <<args, confirmed>>
        BY <2>3, <3>2, GivenValue DEF UserTx, IsTx, fixed
    <3>4. AsAsked' /\ Online' /\ Expiry' /\ NodeTx'
        BY <1>a, <2>3, <3>3 DEF AsAsked, IsTx, Online, Expiry, NodeTx
    <3>5. Prompted'
        BY <2>1, <2>3, <3>1, <3>3 DEF WInv, Prompted, Prompt1, After
    <3>6. limits' = [minimum_fee |-> minimum, balance |-> limits.balance]
        BY <2>3 DEF WInv, Affordable, IsLimits
    <3>7. Affordable'
        BY <2>3, <3>1, <3>3, <3>6 DEF Affordable, IsLimits
    <3> QED BY <3>1, <3>4, <3>5, <3>7 DEF WInv
  <2> QED BY <2>1, <2>2, <2>3
<1>3. CASE rosetta_balance_request
  <2>1. PICK balance \in Balances :
          /\ pc = "balance"
          /\ \/ /\ tx.amount + tx.fee <= balance
                /\ limits' = [limits EXCEPT !.balance = balance]
                /\ pc' = "confirm"
                /\ UNCHANGED <<fixed, dongle, NETWORK, tx, unsigned, confirmed, outcome>>
             \/ End("stopped")
      BY <1>3 DEF rosetta_balance_request
  <2>2. CASE End("stopped")
      BY <1>b, <2>2, EndKeeps
  <2>3. CASE /\ tx.amount + tx.fee <= balance
             /\ limits' = [limits EXCEPT !.balance = balance]
             /\ pc' = "confirm"
             /\ UNCHANGED <<fixed, dongle, NETWORK, tx, unsigned, confirmed, outcome>>
    <3>1. Signed' /\ SentAsSigned' /\ Compared' /\ args' \in Commands /\ signature' = Nothing
        BY <2>1, <2>3, NotSignedYet DEF Building
    <3>2. AsAsked' /\ Online' /\ Expiry' /\ NodeTx' /\ Prompted'
        BY <2>1, <2>3, <3>1 DEF WInv, AsAsked, Online, Expiry, NodeTx, Prompted, Questions, HasTx,
           Building, After, Prompt1, fixed
    <3>3. limits' = [minimum_fee |-> limits.minimum_fee, balance |-> balance]
        BY <2>3 DEF WInv, Affordable, IsLimits
    <3>4. Affordable'
        BY <2>1, <2>3, <3>1, <3>3 DEF WInv, Affordable, IsLimits, HasTx, fixed
    <3> QED BY <3>1, <3>2, <3>4 DEF WInv
  <2> QED BY <2>1, <2>2, <2>3
<1> QED BY <1>1, <1>2, <1>3

----------------------------------------------------------------------------
(* The first prompt.                                                       *)
LEMMA FirstPrompt == ASSUME UsualCommands, WInv, Confirm PROVE WInv'
<1> DEFINE shown == print_transaction(tx, tx.valid_until)
<1>1. /\ pc = "confirm" /\ pc' = IF args.offline THEN "sign" ELSE "payloads"
      /\ confirmed' = confirmed \union {shown}
      /\ tx' = [tx EXCEPT !.valid_until = IF args.offline THEN Given(@, Forever) ELSE @]
      /\ UNCHANGED <<args, NETWORK, limits>>
    BY DEF Confirm, fixed
<1>2. Signed' /\ SentAsSigned' /\ Compared' /\ args' \in Commands /\ signature' = Nothing
    BY <1>1, NotSignedYet DEF Confirm, Building
<1>3. IsTx(tx) /\ tx.op = args.op /\ tx.to = args.to /\ tx.memo # Absent /\ tx.valid_until = args.valid_until
    BY <1>1 DEF WInv, AsAsked, Expiry, HasTx, Building
<1>4. tx' = [op |-> tx.op, account |-> tx.account, from |-> tx.from, to |-> tx.to, amount |-> tx.amount,
             fee |-> tx.fee, nonce |-> tx.nonce, memo |-> tx.memo,
             valid_until |-> IF args.offline THEN Given(args.valid_until, Forever) ELSE args.valid_until]
    BY <1>1, <1>3 DEF IsTx
<1>5. AsAsked'
    BY <1>1, <1>3, <1>4 DEF AsAsked, IsTx
<1>6. Online' /\ Expiry' /\ NodeTx'
    BY <1>1, <1>4 DEF Online, Expiry, NodeTx, Questions
<1>7. Prompted'
  <2>1. confirmed = {}
      BY <1>1 DEF WInv, Prompted
  <2>2. confirmed' = {shown}
      BY <1>1, <2>1
  <2>3. ASSUME NEW c, c = shown PROVE Shows(c)'
      BY <1>1, <1>3, <1>4, <2>3 DEF Shows, print_transaction
  <2>4. \A c \in confirmed' : Shows(c)'
      BY <2>2, <2>3
  <2> HIDE DEF shown
  <2>5. confirmed' # {} /\ pc' \notin {"start", "network", "metadata", "balance", "confirm"}
      BY <1>1, <2>2
  <2> QED BY <2>4, <2>5 DEF Prompted
<1>8. Affordable'
    BY <1>1, <1>2, <1>4 DEF WInv, Affordable, IsLimits, HasTx, Building
<1> QED BY <1>2, <1>5, <1>6, <1>7, <1>8 DEF WInv

(* What a node may change.                                                 *)
LEMMA AlteredKeeps ==
    ASSUME NEW j, IsJson(j), NEW a \in Altered(j)
    PROVE  IsJson(a) /\ a.op = j.op /\ (j.op = "delegate" => a.amount = j.amount)
<1>1. \/ a \in {j, [j EXCEPT !.from = j.to], [j EXCEPT !.to = j.from],
                 [j EXCEPT !.fee = Plus(@, 1)], [j EXCEPT !.nonce = (@ + 1) % (Forever + 1)]}
      \/ \E v : a = [j EXCEPT !.amount = v] /\ (j.op = "delegate" => v = j.amount)
      \/ \E v : a = [j EXCEPT !.valid_until = v]
      \/ \E m : a = [j EXCEPT !.memo = m]
    BY DEF Altered
<1> QED BY <1>1 DEF IsJson, Json

(* A step between the first prompt and the device that leaves alone what   *)
(* was shown, an expiry apart.                                             *)
LEMMA StillShown ==
    ASSUME WInv, UNCHANGED <<args, NETWORK, confirmed, limits>>, IsTx(tx'),
           \E v : tx' = [tx EXCEPT !.valid_until = v], pc \in {"payloads", "parse"},
           pc' \in {"parse", "sign"}, signature' = Nothing
    PROVE  AsAsked' /\ Prompted' /\ Affordable'
<1>1. IsTx(tx) /\ tx.op = args.op /\ tx.to = args.to /\ tx.memo # Absent
    BY DEF WInv, AsAsked, HasTx, Building
<1>2. PICK v : tx' = [tx EXCEPT !.valid_until = v]
    OBVIOUS
<1>3. /\ tx'.op = tx.op /\ tx'.account = tx.account /\ tx'.from = tx.from /\ tx'.to = tx.to
      /\ tx'.amount = tx.amount /\ tx'.fee = tx.fee /\ tx'.nonce = tx.nonce /\ tx'.memo = tx.memo
    BY <1>1, <1>2 DEF IsTx
<1>4. AsAsked'
    BY <1>1, <1>3 DEF AsAsked, IsTx
<1>5. Prompted'
    BY <1>3 DEF WInv, Prompted, Shows, Prompt1
<1>6. Affordable'
    BY <1>3 DEF WInv, Affordable, IsLimits, HasTx, Building
<1> QED BY <1>4, <1>5, <1>6

LEMMA NodeBuilds == ASSUME UsualCommands, WInv, rosetta_payloads_request PROVE WInv'
<1>1. PICK j \in Altered(Json(tx, Absent, Absent)) :
          /\ unsigned' = [j EXCEPT !.valid_until = Given(tx.valid_until, @),
                                   !.memo = IF tx.memo = NoMemo THEN @ ELSE tx.memo]
          /\ tx' = [tx EXCEPT !.valid_until = Given(@, Given(j.valid_until, Forever))]
    BY DEF rosetta_payloads_request
<1>2. pc = "payloads" /\ pc' = "parse" /\ UNCHANGED <<args, NETWORK, limits, confirmed>> /\ ~ args.offline
    BY DEF rosetta_payloads_request, fixed, WInv, Online, Questions
<1>3. Signed' /\ SentAsSigned' /\ Compared' /\ args' \in Commands /\ signature' = Nothing
    BY <1>2, NotSignedYet DEF rosetta_payloads_request, Building
<1>4. IsTx(tx) /\ tx.op = args.op /\ tx.valid_until = args.valid_until
    BY <1>2 DEF WInv, AsAsked, Expiry, HasTx, Building
<1>5. tx' = [op |-> tx.op, account |-> tx.account, from |-> tx.from, to |-> tx.to, amount |-> tx.amount,
             fee |-> tx.fee, nonce |-> tx.nonce, memo |-> tx.memo,
             valid_until |-> Given(args.valid_until, Given(j.valid_until, Forever))]
    BY <1>1, <1>4 DEF IsTx
<1>6. AsAsked' /\ Prompted' /\ Affordable'
    BY <1>1, <1>2, <1>3, <1>5, StillShown DEF IsTx
<1>7. IsJson(j) /\ j.op = tx.op /\ (tx.op = "delegate" => j.amount = tx.amount)
  <2> DEFINE asked == Json(tx, Absent, Absent)
  <2>1. IsJson(asked) /\ asked.op = tx.op /\ asked.amount = tx.amount
      BY DEF IsJson, Json
  <2>2. j \in Altered(asked)
      BY <1>1
  <2> HIDE DEF asked
  <2> QED BY <2>1, <2>2, AlteredKeeps
<1>8. /\ IsJson(unsigned') /\ unsigned'.op = j.op /\ unsigned'.amount = j.amount
      /\ unsigned'.valid_until = Given(args.valid_until, j.valid_until)
    BY <1>1, <1>4, <1>7 DEF IsJson, Json
<1>9. NodeTx'
    BY <1>2, <1>4, <1>5, <1>7, <1>8 DEF NodeTx, SameKind, UsualCommands, WInv
<1>10. Online' /\ Expiry'
    BY <1>2, <1>5, <1>8, GivenValue DEF Online, Expiry
<1> QED BY <1>3, <1>6, <1>9, <1>10 DEF WInv

LEMMA NodeParses == ASSUME WInv, rosetta_parse_request PROVE WInv'
<1>1. CASE End("refused")
  <2>1. "refused" \in Ended
      BY DEF Ended
  <2> QED BY <1>1, <2>1, EndKeeps
<1>2. CASE pc' = "sign" /\ UNCHANGED <<fixed, dongle, NETWORK, tx, limits, unsigned, confirmed, outcome>>
  <2>1. pc = "parse" /\ UNCHANGED <<args, NETWORK, limits, confirmed>>
      BY <1>2 DEF rosetta_parse_request, fixed
  <2>2. Signed' /\ SentAsSigned' /\ Compared' /\ args' \in Commands /\ signature' = Nothing
      BY <1>2, <2>1, NotSignedYet DEF Building
  <2>3. AsAsked' /\ Prompted' /\ Affordable'
      BY <1>2, <2>1, <2>2 DEF WInv, AsAsked, Prompted, Shows, Affordable, IsLimits, HasTx, Building,
         Prompt1
  <2>4. Online' /\ Expiry' /\ NodeTx'
      BY <1>2, <2>1 DEF WInv, Online, Expiry, NodeTx, SameKind, Questions
  <2> QED BY <2>2, <2>3, <2>4 DEF WInv
<1> QED BY <1>1, <1>2 DEF rosetta_parse_request

----------------------------------------------------------------------------
(* The device signs.                                                       *)
LEMMA DeviceMessage ==
    ASSUME NEW r, Writable, Approves(r), tx.to.enc # "undecodable"
    PROVE  /\ SignatureOf(r).message = AskedMessage
           /\ SignatureOf(r).network_id = network_id_from_string(NETWORK)
           /\ SignatureOf(r).signer = KeyOf(tx.account) /\ KeyOf(tx.account) = tx.from.pk
           /\ SignatureOf(r).bytes = "big end first"
<1>1. tx.from.enc = "mina" /\ tx.from.pk = KeyOf(tx.account)
    BY DEF Approves, generate_address
<1>2. read_public_key_compressed(SignRequest.from, r) = tx.from.pk
    BY <1>1 DEF read_public_key_compressed, SignRequest
<1>3. read_public_key_compressed(SignRequest.to, r) = tx.to.pk
    BY DEF read_public_key_compressed, SignRequest
<1>4. WriteTx(ZeroTx, SignRequest, Accepted, r) =
        [account |-> tx.account, source_pk |-> tx.from.pk, fee_payer_pk |-> tx.from.pk,
         receiver_pk |-> tx.to.pk, amount |-> tx.amount, fee |-> tx.fee, nonce |-> tx.nonce,
         valid_until |-> tx.valid_until, memo |-> tx.memo, tag |-> tx_type_from_op(tx.op),
         tag_bits |-> TagBits(tx_type_from_op(tx.op)), network_id |-> network_id_from_string(NETWORK)]
    BY <1>2, <1>3 DEF WriteTx, SignRequest, Accepted
<1>5. SignatureOf(r).message = AskedMessage
    BY <1>4 DEF SignatureOf, transaction_to_roinput, AskedMessage
<1>6. /\ SignatureOf(r).network_id = network_id_from_string(NETWORK)
      /\ SignatureOf(r).signer = KeyOf(tx.account) /\ SignatureOf(r).bytes = "big end first"
    BY <1>4 DEF SignatureOf
<1> QED BY <1>1, <1>5, <1>6

LEMMA ExpirySigned ==
    ASSUME UsualCommands, WInv, pc = "sign", Writable
    PROVE  tx.valid_until = Given(args.valid_until, Forever) /\ tx.valid_until # Absent
<1>1. tx.valid_until # Absent
    BY DEF Writable, UsualCommands
<1>2. tx.valid_until = Given(args.valid_until, Forever)
    BY GivenValue DEF Writable, TextExpiry, WInv, Expiry
<1> QED BY <1>1, <1>2

(* What is under the signature, when the transaction is written as j.      *)
LEMMA SameMessage ==
    ASSUME NEW j, j.op = tx.op, j.from = tx.from, j.to = tx.to, j.amount = tx.amount,
           j.fee = tx.fee, j.nonce = tx.nonce,
           Given(j.valid_until, Forever) = tx.valid_until, Given(j.memo, NoMemo) = tx.memo
    PROVE  MessageOf(j) = AskedMessage
BY DEF MessageOf, AskedMessage

LEMMA DeviceSigns == ASSUME UsualCommands, WInv, ledger_sign_tx PROVE WInv'
<1>1. PICK r \in Residues :
        /\ pc = "sign" /\ Writable /\ Approves(r) /\ signature' = SignatureOf(r)
        /\ IF args.offline
           THEN /\ sent' = {[network |-> NETWORK,
                             signature |-> re_encode_raw_signature(SignatureOf(r)),
                             tx |-> Json(tx, tx.valid_until,
                                         IF tx.memo = NoMemo THEN Absent ELSE tx.memo)]}
                /\ pc' = "printed"
           ELSE pc' = "combine" /\ UNCHANGED sent
    BY DEF ledger_sign_tx
<1>2. UNCHANGED <<args, NETWORK, tx, limits, unsigned, signed, confirmed>>
    BY DEF ledger_sign_tx, fixed
<1>3. IsTx(tx) /\ tx.op = args.op /\ tx.to = args.to /\ tx.memo # Absent
    BY <1>1 DEF WInv, AsAsked, HasTx, Building
<1>4. tx.to.enc # "undecodable"
    BY <1>3 DEF UsualCommands, WInv
<1>5. tx.valid_until = Given(args.valid_until, Forever) /\ tx.valid_until # Absent
    BY <1>1, ExpirySigned
<1> DEFINE made == SignatureOf(r)
<1>6. /\ made.message = AskedMessage /\ made.network_id = network_id_from_string(NETWORK)
      /\ made.signer = KeyOf(tx.account) /\ KeyOf(tx.account) = tx.from.pk
      /\ made.bytes = "big end first"
    BY <1>1, <1>4, DeviceMessage
<1> DEFINE printed == re_encode_raw_signature(made)
<1>7. /\ printed.message = made.message /\ printed.network_id = made.network_id
      /\ printed.signer = made.signer /\ printed.bytes = "little end first"
  <2>1. made = [op |-> made.op, signer |-> made.signer, message |-> made.message,
                network_id |-> made.network_id, bytes |-> made.bytes]
      BY DEF SignatureOf
  <2> HIDE DEF made
  <2> QED BY <2>1 DEF re_encode_raw_signature
<1>8. signature' = made
    BY <1>1
<1> HIDE DEF made, printed
<1>9. SignedAsAsked'
    BY <1>2, <1>3, <1>5, <1>6, <1>8 DEF SignedAsAsked, AskedMessage
<1>10. Signed'
    BY <1>1, <1>9 DEF Signed, Building
<1>11. Online' /\ AsAsked' /\ Expiry' /\ Compared' /\ NodeTx'
    BY <1>1, <1>2, <1>3 DEF Online, AsAsked, IsTx, Expiry, Compared, NodeTx, SameKind, WInv, Questions,
       HasTx, Building, After
<1>12. Prompted'
    BY <1>1, <1>2 DEF WInv, Prompted, Shows, Prompt1
<1>13. Affordable'
    BY <1>1, <1>2 DEF WInv, Affordable, IsLimits, HasTx, Building
<1>14. SentAsSigned'
  <2>1. CASE args.offline
    <3> DEFINE j == Json(tx, tx.valid_until, IF tx.memo = NoMemo THEN Absent ELSE tx.memo)
    <3>1. /\ j.op = tx.op /\ j.from = tx.from /\ j.to = tx.to /\ j.amount = tx.amount
          /\ j.fee = tx.fee /\ j.nonce = tx.nonce
          /\ Given(j.valid_until, Forever) = tx.valid_until /\ Given(j.memo, NoMemo) = tx.memo
        BY <1>3, <1>5 DEF Json, Given
    <3>2. sent' = {[network |-> NETWORK, signature |-> printed, tx |-> j]}
        BY <1>1, <2>1 DEF made, printed
    <3> HIDE DEF j
    <3>3. MessageOf(j) = AskedMessage
        BY <3>1, SameMessage
    <3>4. ASSUME NEW s \in sent'
          PROVE  /\ s.signature.message = MessageOf(s.tx)
                 /\ s.signature.network_id = network_id_from_string(s.network)
                 /\ s.signature.signer = s.tx.from.pk
                 /\ s.signature.bytes = "little end first"
      <4>1. s.network = NETWORK /\ s.signature = printed /\ s.tx = j
          BY <3>2
      <4>2. s.signature.message = MessageOf(s.tx)
          BY <1>6, <1>7, <3>3, <4>1
      <4>3. s.signature.network_id = network_id_from_string(s.network)
          BY <1>6, <1>7, <4>1
      <4> QED BY <1>6, <1>7, <3>1, <4>1, <4>2, <4>3
    <3> QED BY <1>2, <2>1, <3>4 DEF SentAsSigned, MessageOf, Given, network_id_from_string, TagBits,
            tx_type_from_op
  <2>2. CASE ~ args.offline
      BY <1>1, <1>2, <2>2 DEF WInv, SentAsSigned
  <2> QED BY <2>1, <2>2
<1> QED BY <1>2, <1>10, <1>11, <1>12, <1>13, <1>14 DEF WInv

----------------------------------------------------------------------------
(* After the device, nothing of what was asked, shown or signed changes.   *)
LEMMA StillSigned ==
    ASSUME WInv, UNCHANGED <<args, NETWORK, tx, limits, signature>>,
           pc \in After, pc' \in After, pc' = "confirm send" => ~ args.offline,
           pc' \in Questions => ~ args.offline
    PROVE  Online' /\ AsAsked' /\ Expiry' /\ Signed' /\ Affordable' /\ args' \in Commands
<1>1. Online' /\ Expiry' /\ args' \in Commands
    BY DEF WInv, Online, Expiry, After
<1>2. AsAsked'
    BY DEF WInv, AsAsked, IsTx, HasTx
<1>3. Signed'
    BY DEF WInv, Signed, SignedAsAsked, AskedMessage, After, Building
<1>4. Affordable'
    BY DEF WInv, Affordable, IsLimits, HasTx, After
<1> QED BY <1>1, <1>2, <1>3, <1>4

LEMMA NodeCombines == ASSUME UsualCommands, WInv, rosetta_combine_request PROVE WInv'
<1>1. PICK j \in Altered(unsigned), s \in {signature, Forged} :
        signed' = [tx |-> [j EXCEPT !.valid_until = tx.valid_until,
                                    !.memo = IF tx.memo = NoMemo THEN @ ELSE tx.memo],
                   signature |-> s]
    BY DEF rosetta_combine_request
<1>2. /\ pc = "combine" /\ pc' = "parse signed" /\ ~ args.offline
      /\ UNCHANGED <<args, NETWORK, tx, limits, unsigned, signature, confirmed, sent>>
    BY DEF rosetta_combine_request, fixed, WInv, Online, Questions
<1>3. Online' /\ AsAsked' /\ Expiry' /\ Signed' /\ Affordable' /\ args' \in Commands
    BY <1>2, StillSigned DEF After
<1>4. SameKind(unsigned) /\ tx.op = args.op
    BY <1>2 DEF WInv, NodeTx, AsAsked, HasTx, After
<1>5. IsJson(j) /\ j.op = tx.op /\ (tx.op # "send-payment" => j.amount = tx.amount)
    BY <1>4, AlteredKeeps DEF SameKind, UsualCommands, WInv
<1>6. SameKind(signed.tx)'
  <2>1. signed'.tx = [op |-> j.op, from |-> j.from, to |-> j.to, amount |-> j.amount, fee |-> j.fee,
                      nonce |-> j.nonce, valid_until |-> tx.valid_until,
                      memo |-> IF tx.memo = NoMemo THEN j.memo ELSE tx.memo]
      BY <1>1, <1>5 DEF IsJson, Json
  <2>2. signed'.tx.op = tx'.op /\ (tx'.op # "send-payment" => signed'.tx.amount = tx'.amount)
    <3>1. signed'.tx.op = j.op /\ signed'.tx.amount = j.amount
        BY <2>1
    <3>2. tx' = tx
        BY <1>2
    <3> QED BY <1>5, <3>1, <3>2
  <2>3. IsJson(signed'.tx)
      BY <2>1 DEF IsJson, Json
  <2> QED BY <2>2, <2>3 DEF SameKind, IsJson, Json
<1>7. NodeTx' /\ Compared'
    BY <1>2, <1>6 DEF NodeTx, Compared
<1>8. Prompted' /\ SentAsSigned'
    BY <1>2 DEF WInv, Prompted, Shows, Prompt1, After, SentAsSigned
<1> QED BY <1>3, <1>7, <1>8 DEF WInv

LEMMA SignedIsParsed == ASSUME WInv, ParseSigned PROVE WInv'
<1>1. CASE End("refused")
  <2>1. "refused" \in Ended
      BY DEF Ended
  <2> QED BY <1>1, <2>1, EndKeeps
<1>2. CASE /\ check_tx(signed.tx, tx) /\ signed.signature = signature /\ pc' = "confirm send"
           /\ UNCHANGED <<fixed, dongle, NETWORK, tx, limits, unsigned, confirmed, outcome>>
  <2>1. /\ pc = "parse signed" /\ ~ args.offline
        /\ UNCHANGED <<args, NETWORK, tx, limits, confirmed, signature, signed, sent>>
      BY <1>2 DEF ParseSigned, fixed, outcome, WInv, Online, Questions
  <2>2. Online' /\ AsAsked' /\ Expiry' /\ Signed' /\ Affordable' /\ args' \in Commands
      BY <1>2, <2>1, StillSigned DEF After, Questions
  <2>3. NodeTx' /\ Compared'
      BY <1>2, <2>1 DEF WInv, NodeTx, SameKind, IsJson, Compared, check_tx
  <2>4. Prompted' /\ SentAsSigned'
      BY <1>2, <2>1 DEF WInv, Prompted, Shows, Prompt1, After, SentAsSigned
  <2> QED BY <2>2, <2>3, <2>4 DEF WInv
<1> QED BY <1>1, <1>2 DEF ParseSigned

(* The second prompt.                                                      *)
LEMMA SecondPrompt == ASSUME UsualCommands, WInv, ConfirmSend PROVE WInv'
<1> DEFINE shown == print_transaction(signed.tx, tx.valid_until)
           j     == signed.tx
<1>1. /\ pc = "confirm send" /\ pc' = "submit" /\ ~ args.offline
      /\ confirmed' = confirmed \union {shown}
      /\ sent' = {[network |-> NETWORK, tx |-> j, signature |-> signed.signature]}
      /\ UNCHANGED <<args, NETWORK, tx, limits, unsigned, signature, signed>>
    BY DEF ConfirmSend, fixed, WInv, Online
<1>2. Online' /\ AsAsked' /\ Expiry' /\ Signed' /\ Affordable' /\ args' \in Commands
    BY <1>1, StillSigned DEF After, Questions
<1>3. NodeTx' /\ Compared'
    BY <1>1 DEF NodeTx, Compared
<1>4. check_tx(j, tx) /\ signed.signature = signature /\ SameKind(j) /\ SignedAsAsked /\ tx.op = args.op
    BY <1>1 DEF WInv, Compared, NodeTx, Signed, After, AsAsked, HasTx
<1>5. /\ j.op = tx.op /\ j.from = tx.from /\ j.to = tx.to /\ j.amount = tx.amount /\ j.fee = tx.fee
      /\ j.nonce = tx.nonce /\ Given(j.valid_until, Forever) = tx.valid_until
      /\ Given(j.memo, NoMemo) = tx.memo
    BY <1>4 DEF check_tx, SameKind
<1>6. Prompted'
  <2>1. ASSUME NEW c, c = shown PROVE Shows(c)'
      BY <1>1, <1>4, <1>5, <2>1 DEF Shows, print_transaction, SignedAsAsked
  <2>2. ASSUME NEW c \in confirmed PROVE Shows(c)'
      BY <1>1 DEF WInv, Prompted, Shows
  <2> HIDE DEF shown
  <2> QED BY <1>1, <2>1, <2>2 DEF Prompted
<1>7. SentAsSigned'
  <2>1. MessageOf(j) = AskedMessage
      BY <1>5, SameMessage
  <2>2. j.from.pk = tx.from.pk
      BY <1>5
  <2>3. signature.bytes # "little end first"
      BY <1>4 DEF SignedAsAsked
  <2>4. sent' = {[network |-> NETWORK, tx |-> j, signature |-> signature]}
      BY <1>1, <1>4
  <2> HIDE DEF j
  <2>5. ASSUME NEW s \in sent'
        PROVE  /\ s.signature.message = MessageOf(s.tx)
               /\ s.signature.network_id = network_id_from_string(s.network)
               /\ s.signature.signer = s.tx.from.pk
               /\ s.signature.bytes # "little end first"
    <3>1. s.network = NETWORK /\ s.signature = signature /\ s.tx = j
        BY <2>4
    <3>2. s.signature.message = MessageOf(s.tx)
        BY <1>4, <2>1, <3>1 DEF SignedAsAsked
    <3>3. s.signature.network_id = network_id_from_string(s.network)
        BY <1>4, <3>1 DEF SignedAsAsked
    <3> QED BY <1>4, <2>2, <2>3, <3>1, <3>2, <3>3 DEF SignedAsAsked
  <2> QED BY <1>1, <2>5 DEF SentAsSigned, MessageOf, Given, network_id_from_string, TagBits,
          tx_type_from_op
<1> QED BY <1>2, <1>3, <1>6, <1>7 DEF WInv

----------------------------------------------------------------------------
LEMMA InitWInv == Init => WInv
<1> SUFFICES ASSUME Init PROVE WInv
    OBVIOUS
<1>1. Online /\ AsAsked /\ Expiry /\ NodeTx /\ Compared /\ SentAsSigned /\ args \in Commands
    BY DEF Init, Online, AsAsked, Expiry, NodeTx, Compared, SentAsSigned, Questions, HasTx, Building, After
<1>2. Signed /\ Prompted /\ Affordable
    BY DEF Init, Signed, Prompted, Affordable, IsLimits, HasTx, Building, After, Prompt1
<1> QED BY <1>1, <1>2 DEF WInv

LEMMA StepWInv == ASSUME UsualCommands, WInv, Next PROVE WInv'
<1>1. CASE StartFails \/ NodeFails \/ Decline \/ DeviceRejects \/ DeviceRefuses \/ SignFails
           \/ rosetta_submit_request
  <2>1. \E how \in Ended : End(how)
      BY <1>1 DEF StartFails, NodeFails, Decline, DeviceRejects, DeviceRefuses, SignFails,
         rosetta_submit_request, Ended
  <2> QED BY <2>1, EndKeeps
<1>2. CASE StartOnline \/ StartOffline
    BY <1>2, Start
<1>3. CASE rosetta_network_request \/ rosetta_metadata_request \/ rosetta_balance_request
    BY <1>3, FirstAnswers
<1>4. CASE Confirm
    BY <1>4, FirstPrompt
<1>5. CASE rosetta_payloads_request
    BY <1>5, NodeBuilds
<1>6. CASE rosetta_parse_request
    BY <1>6, NodeParses
<1>7. CASE ledger_sign_tx
    BY <1>7, DeviceSigns
<1>8. CASE rosetta_combine_request
    BY <1>8, NodeCombines
<1>9. CASE ParseSigned
    BY <1>9, SignedIsParsed
<1>10. CASE ConfirmSend
    BY <1>10, SecondPrompt
<1> QED BY <1>1, <1>2, <1>3, <1>4, <1>5, <1>6, <1>7, <1>8, <1>9, <1>10 DEF Next

LEMMA StutterWInv == ASSUME WInv, UNCHANGED vars PROVE WInv'
<1>1. UNCHANGED <<pc, args, NETWORK, tx, limits, unsigned, signature, signed, confirmed, sent>>
    BY DEF vars
<1>2. Online' /\ AsAsked' /\ Expiry' /\ NodeTx' /\ Compared' /\ SentAsSigned' /\ args' \in Commands
    BY <1>1 DEF WInv, Online, AsAsked, IsTx, Expiry, NodeTx, SameKind, IsJson, Compared, check_tx,
       SentAsSigned
<1>3. Signed' /\ Prompted' /\ Affordable'
    BY <1>1 DEF WInv, Signed, SignedAsAsked, AskedMessage, Prompted, Shows, Affordable, IsLimits
<1> QED BY <1>2, <1>3 DEF WInv

LEMMA AlwaysWInv == ASSUME UsualCommands PROVE Spec => []WInv
<1>1. WInv /\ [Next]_vars => WInv'
    BY StepWInv, StutterWInv
<1> QED BY InitWInv, <1>1, PTL DEF Spec

(* What the wallet submits or prints is what the device signed.            *)
THEOREM SendsWhatIsSigned == ASSUME UsualCommands PROVE Spec => []SentAsSigned
<1>1. WInv => SentAsSigned
    BY DEF WInv
<1> QED BY AlwaysWInv, <1>1, PTL

(* The device signs what every prompt of the wallet showed.                *)
THEOREM SignsWhatIsConfirmed == ASSUME UsualCommands PROVE Spec => []SignedAsConfirmed
<1>1. ASSUME WInv, signature # Nothing PROVE SignedAsConfirmed
  <2>1. SignedAsAsked /\ confirmed # {}
      BY <1>1 DEF WInv, Signed, Prompted
  <2>2. ASSUME NEW c \in confirmed
        PROVE  /\ signature.message = MessageOf(c)
               /\ signature.network_id = c.network_id
               /\ signature.signer = KeyOf(c.account)
    <3>1. Shows(c)
        BY <1>1 DEF WInv, Prompted
    <3>2. Given(c.valid_until, Forever) = tx.valid_until /\ Given(c.memo, NoMemo) = tx.memo
        BY <2>1, <3>1 DEF Shows, SignedAsAsked, Given
    <3>3. MessageOf(c) = AskedMessage
        BY <3>1, <3>2, SameMessage DEF Shows
    <3> QED BY <2>1, <3>1, <3>3 DEF Shows, SignedAsAsked
  <2> QED BY <2>1, <2>2 DEF SignedAsConfirmed
<1>2. WInv => SignedAsConfirmed
    BY <1>1 DEF SignedAsConfirmed
<1> QED BY AlwaysWInv, <1>2, PTL

(* What is signed online respects the minimum fee and the balance.         *)
THEOREM SignsWhatIsAffordable == ASSUME UsualCommands PROVE Spec => []SignedIsAffordable
<1>1. ASSUME WInv, signature # Nothing, ~ args.offline
      PROVE  /\ signature.message.fee >= limits.minimum_fee
             /\ signature.message.amount + signature.message.fee <= limits.balance
  <2>1. signature.message = AskedMessage
      BY <1>1 DEF WInv, Signed, SignedAsAsked
  <2>2. signature.message.fee = tx.fee /\ signature.message.amount = tx.amount
      BY <2>1 DEF AskedMessage
  <2>3. tx.fee >= limits.minimum_fee /\ tx.amount + tx.fee <= limits.balance
      BY <1>1 DEF WInv, Affordable
  <2> QED BY <2>2, <2>3
<1>2. WInv => SignedIsAffordable
    BY <1>1 DEF SignedIsAffordable
<1> QED BY AlwaysWInv, <1>2, PTL

----------------------------------------------------------------------------
(* Types.  The node's answers are typed as soon as what it was asked is,   *)
(* so the invariant says when there is something to ask about.             *)
TypedParts ==
    /\ pc \in HasTx => IsTx(tx) /\ Json(tx, tx.valid_until, tx.memo) \in JsonTx
    /\ pc \in {"parse", "sign", "combine"} /\ ~ args.offline => unsigned \in JsonTx
    /\ pc \in {"parse signed", "confirm send"} => signed.tx \in JsonTx
TInv == TypeOK /\ TypedParts /\ Online

LEMMA Numbers ==
    /\ Fees \subseteq Int /\ Uint32 \subseteq Int /\ Forever \in Int /\ 0 \in Int
    /\ \A m, n \in Int : Plus(m, n) \in Int
    /\ \A n \in Int : (n + 1) % (Forever + 1) \in Int
<1>1. CurrencyModulus \in Nat \ {0} /\ HardenedOffset \in Nat \ {0}
    BY ModulusAssumption
<1>2. Fees \subseteq Int /\ Uint32 \subseteq Int /\ Forever \in Int
    BY <1>1, WalletAssumption DEF Currency, Uint32, Forever
<1>3. \A m, n \in Int : Plus(m, n) \in Int
    BY <1>1 DEF Plus
<1>4. Forever + 1 \in Nat \ {0}
    BY <1>1 DEF Forever
<1>5. \A n \in Int : (n + 1) % (Forever + 1) \in Int
    BY <1>4
<1> QED BY <1>2, <1>3, <1>5

LEMMA AlteredTyped ==
    ASSUME NEW j \in JsonTx, NEW a \in Altered(j)
    PROVE  a \in JsonTx
<1>1. \/ a = j \/ a = [j EXCEPT !.from = j.to] \/ a = [j EXCEPT !.to = j.from]
      \/ \E f \in Int : a = [j EXCEPT !.fee = f]
      \/ \E n \in Int : a = [j EXCEPT !.nonce = n]
      \/ \E v \in Int : a = [j EXCEPT !.amount = v]
      \/ \E v \in Int \union {Absent} : a = [j EXCEPT !.valid_until = v]
      \/ \E m \in Memos : a = [j EXCEPT !.memo = m]
  <2>1. j.fee \in Int /\ j.nonce \in Int /\ j.amount \in Int /\ 1 \in Int
      BY DEF JsonTx
  <2>2. Plus(j.fee, 1) \in Int /\ Plus(j.amount, 1) \in Int
      BY <2>1, Numbers
  <2>3. (j.nonce + 1) % (Forever + 1) \in Int
      BY <2>1, Numbers
  <2> DEFINE fee == Plus(j.fee, 1)
             amount == Plus(j.amount, 1)
             nonce == (j.nonce + 1) % (Forever + 1)
  <2>4. /\ fee \in Int /\ amount \in Int /\ nonce \in Int /\ Forever \in Int
        /\ \/ a \in {j, [j EXCEPT !.from = j.to], [j EXCEPT !.to = j.from],
                     [j EXCEPT !.fee = fee], [j EXCEPT !.nonce = nonce]}
           \/ \E v \in {j.amount, amount} : a = [j EXCEPT !.amount = v]
           \/ \E v \in {Absent, 0, Forever} : a = [j EXCEPT !.valid_until = v]
           \/ \E m \in Memos : a = [j EXCEPT !.memo = m]
      BY <2>2, <2>3, Numbers DEF Altered
  <2> HIDE DEF fee, amount, nonce
  <2> QED BY <2>1, <2>4
<1> QED BY <1>1 DEF JsonTx

LEMMA OptionsTyped ==
    ASSUME args \in Commands
    PROVE  /\ args.op \in {"send-payment", "delegate"}
           /\ args.from \in Addresses /\ args.to \in Addresses /\ args.amount \in Int
           /\ args.fee \in Int \union {Absent} /\ args.nonce \in Int \union {Absent}
           /\ args.valid_until \in Int \union {Absent}
           /\ args.memo \in Memos \union {Absent} /\ args.network \in Networks \union {Absent}
BY CommandAssumption

LEMMA UserTxTyped ==
    ASSUME args \in Commands, NEW fee \in Int, NEW nonce \in Int
    PROVE  /\ Json(UserTx(fee, nonce), UserTx(fee, nonce).valid_until, UserTx(fee, nonce).memo) \in JsonTx
           /\ IsTx(UserTx(fee, nonce))
<1>1. Given(args.memo, NoMemo) \in Memos
    BY OptionsTyped, MemoAssumption DEF Given
<1>2. (IF args.op = "delegate" THEN 0 ELSE args.amount) \in Int
    BY OptionsTyped
<1> QED BY <1>1, <1>2, OptionsTyped DEF UserTx, Json, JsonTx, IsTx

LEMMA InitTyped == Init => TInv
<1> SUFFICES ASSUME Init PROVE TInv
    OBVIOUS
<1>1. TypeOK
    BY WalletAssumption DEF Init, TypeOK
<1>2. TypedParts /\ Online
    BY DEF Init, TypedParts, Online, HasTx, Building, After, Questions
<1> QED BY <1>1, <1>2 DEF TInv

LEMMA EndTyped ==
    ASSUME TInv, \E how \in Ended : End(how)
    PROVE  TInv'
<1>1. pc' \in Ended /\ UNCHANGED <<args, NETWORK, tx, unsigned, signed, sent>>
    BY DEF End, fixed, outcome
<1>2. TypeOK'
    BY <1>1 DEF TInv, TypeOK, Json
<1>3. TypedParts' /\ Online'
    BY <1>1 DEF Ended, TypedParts, Online, HasTx, Building, After, Questions
<1> QED BY <1>2, <1>3 DEF TInv

LEMMA StepTyped == ASSUME TInv, [Next]_vars PROVE TInv'
<1>1. TypeOK /\ TypedParts /\ Online /\ args \in Commands
    BY DEF TInv, TypeOK
<1>2. CASE \E how \in Ended : End(how)
    BY <1>2, EndTyped
<1>3. CASE StartOnline
  <2>1. pc = "start" /\ pc' = "network" /\ ~ args.offline /\ UNCHANGED <<args, NETWORK, tx, unsigned, signed, sent>>
      BY <1>3 DEF StartOnline, fixed, outcome
  <2>2. TypeOK'
      BY <1>1, <2>1 DEF TypeOK, Json, Questions
  <2> QED BY <2>1, <2>2 DEF TInv, TypedParts, Online, HasTx, Building, After, Questions
<1>4. CASE StartOffline
  <2>1. /\ pc = "start" /\ pc' = "confirm" /\ args.offline /\ UNCHANGED <<args, unsigned, signed, sent>>
        /\ NETWORK' = Given(args.network, Mainnet) /\ tx' = UserTx(args.fee, args.nonce)
        /\ args.fee # Absent /\ args.nonce # Absent
      BY <1>4 DEF StartOffline, fixed, outcome
  <2>2. args.fee \in Int /\ args.nonce \in Int
      BY <1>1, <2>1, OptionsTyped
  <2>3. Json(tx', tx'.valid_until, tx'.memo) \in JsonTx /\ IsTx(tx')
      BY <1>1, <2>1, <2>2, UserTxTyped
  <2>4. NETWORK' \in Networks
      BY <1>1, <2>1, OptionsTyped, WalletAssumption DEF Given
  <2>5. TypeOK'
      BY <1>1, <2>1, <2>3, <2>4 DEF TypeOK, Json
  <2> QED BY <2>1, <2>3, <2>5 DEF TInv, TypedParts, Online, Json, Questions, IsTx
<1>5. CASE rosetta_network_request /\ ~ \E how \in Ended : End(how)
  <2>1. PICK name \in Networks : NETWORK' = Given(args.network, name)
      BY <1>5 DEF rosetta_network_request, Ended
  <2>2. pc = "network" /\ pc' = "metadata" /\ UNCHANGED <<args, tx, unsigned, signed, sent>>
      BY <1>5 DEF rosetta_network_request, Ended, fixed, outcome
  <2>3. NETWORK' \in Networks
      BY <1>1, <2>1, OptionsTyped DEF Given
  <2>4. TypeOK'
      BY <1>1, <2>2, <2>3 DEF TypeOK, Json, Questions
  <2> QED BY <1>1, <2>2, <2>4 DEF TInv, TypedParts, Online, HasTx, Building, After, Questions
<1>6. CASE rosetta_metadata_request /\ ~ \E how \in Ended : End(how)
  <2>1. PICK nonce \in Uint32, suggested \in Fees : tx' = UserTx(Given(args.fee, suggested), Given(args.nonce, nonce))
      BY <1>6 DEF rosetta_metadata_request, Ended
  <2>2. pc = "metadata" /\ pc' = "balance" /\ UNCHANGED <<args, NETWORK, unsigned, signed, sent>>
      BY <1>6 DEF rosetta_metadata_request, Ended, fixed, outcome
  <2>3. Given(args.fee, suggested) \in Int /\ Given(args.nonce, nonce) \in Int
    <3>1. suggested \in Int /\ nonce \in Int
        BY <2>1, Numbers
    <3> QED BY <1>1, <3>1, OptionsTyped DEF Given
  <2>4. Json(tx', tx'.valid_until, tx'.memo) \in JsonTx /\ IsTx(tx')
      BY <1>1, <2>1, <2>3, UserTxTyped
  <2>5. TypeOK'
      BY <1>1, <2>2, <2>4 DEF TypeOK, Json, Questions
  <2> QED BY <1>1, <2>2, <2>4, <2>5 DEF TInv, TypedParts, Online, HasTx, Building, After, Questions, Json, IsTx
<1>7. CASE rosetta_balance_request /\ ~ \E how \in Ended : End(how)
  <2>1. pc = "balance" /\ pc' = "confirm" /\ UNCHANGED <<args, NETWORK, tx, unsigned, signed, sent>>
      BY <1>7 DEF rosetta_balance_request, Ended, fixed, outcome
  <2>2. TypeOK'
      BY <1>1, <2>1 DEF TypeOK, Json
  <2> QED BY <1>1, <2>1, <2>2 DEF TInv, TypedParts, Online, HasTx, Building, After, Questions, Json, IsTx
<1>8. CASE Confirm
  <2>1. /\ pc = "confirm" /\ UNCHANGED <<args, NETWORK, unsigned, signed, sent>>
        /\ pc' = IF args.offline THEN "sign" ELSE "payloads"
        /\ tx' = [tx EXCEPT !.valid_until = IF args.offline THEN Given(@, Forever) ELSE @]
      BY <1>8 DEF Confirm, fixed, outcome
  <2>2. IsTx(tx) /\ Json(tx, tx.valid_until, tx.memo) \in JsonTx
      BY <1>1, <2>1 DEF TypedParts, HasTx, Building
  <2>3. PICK v \in Int \union {Absent} : tx' = [tx EXCEPT !.valid_until = v]
    <3>1. tx.valid_until \in Int \union {Absent} /\ Forever \in Int
        BY <2>2, Numbers DEF Json, JsonTx
    <3>2. Given(tx.valid_until, Forever) \in Int \union {Absent}
        BY <3>1 DEF Given
    <3> QED BY <2>1, <3>1, <3>2
  <2>4. IsTx(tx') /\ Json(tx', tx'.valid_until, tx'.memo) \in JsonTx
      BY <2>2, <2>3 DEF IsTx, Json, JsonTx
  <2>5. TypeOK'
      BY <1>1, <2>1, <2>4 DEF TypeOK, Json, Questions
  <2> QED BY <2>1, <2>4, <2>5 DEF TInv, TypedParts, Online, Json, IsTx, Questions
<1>9. CASE rosetta_payloads_request
  <2>1. PICK j \in Altered(Json(tx, Absent, Absent)) :
            /\ unsigned' = [j EXCEPT !.valid_until = Given(tx.valid_until, @),
                                     !.memo = IF tx.memo = NoMemo THEN @ ELSE tx.memo]
            /\ tx' = [tx EXCEPT !.valid_until = Given(@, Given(j.valid_until, Forever))]
      BY <1>9 DEF rosetta_payloads_request
  <2>2. pc = "payloads" /\ pc' = "parse" /\ ~ args.offline /\ UNCHANGED <<args, NETWORK, signed, sent>>
      BY <1>1, <1>9 DEF rosetta_payloads_request, fixed, outcome, Online, Questions
  <2>3. IsTx(tx) /\ Json(tx, tx.valid_until, tx.memo) \in JsonTx
      BY <1>1, <2>2 DEF TypedParts, HasTx, Building
  <2>4. Json(tx, Absent, Absent) \in JsonTx
      BY <2>3 DEF Json, JsonTx
  <2>5. j \in JsonTx
      BY <2>1, <2>4, AlteredTyped
  <2>6. /\ tx.valid_until \in Int \union {Absent} /\ tx.memo \in Memos \union {Absent}
        /\ j.valid_until \in Int \union {Absent} /\ j.memo \in Memos \union {Absent} /\ Forever \in Int
      BY <2>3, <2>5, Numbers DEF Json, JsonTx
  <2>7. PICK v \in Int \union {Absent}, m \in Memos \union {Absent} :
            unsigned' = [j EXCEPT !.valid_until = v, !.memo = m]
    <3>1. Given(tx.valid_until, j.valid_until) \in Int \union {Absent}
        BY <2>6 DEF Given
    <3>2. (IF tx.memo = NoMemo THEN j.memo ELSE tx.memo) \in Memos \union {Absent}
        BY <2>6
    <3> QED BY <2>1, <3>1, <3>2
  <2>8. unsigned' \in JsonTx
      BY <2>5, <2>7 DEF JsonTx
  <2>9. PICK expiry \in Int \union {Absent} : tx' = [tx EXCEPT !.valid_until = expiry]
    <3>1. Given(tx.valid_until, Given(j.valid_until, Forever)) \in Int \union {Absent}
        BY <2>6 DEF Given
    <3> QED BY <2>1, <3>1
  <2>10. IsTx(tx') /\ Json(tx', tx'.valid_until, tx'.memo) \in JsonTx
      BY <2>3, <2>9 DEF IsTx, Json, JsonTx
  <2>11. TypeOK'
      BY <1>1, <2>2, <2>8, <2>10 DEF TypeOK, Json, Questions
  <2> QED BY <2>2, <2>8, <2>10, <2>11 DEF TInv, TypedParts, Online, Json, IsTx
<1>10. CASE rosetta_parse_request /\ ~ \E how \in Ended : End(how)
  <2>1. pc = "parse" /\ pc' = "sign" /\ UNCHANGED <<args, NETWORK, tx, unsigned, signed, sent>>
      BY <1>10 DEF rosetta_parse_request, Ended, fixed, outcome
  <2>2. TypeOK'
      BY <1>1, <2>1 DEF TypeOK, Json
  <2> QED BY <1>1, <2>1, <2>2 DEF TInv, TypedParts, Online, HasTx, Building, After, Questions, Json, IsTx
<1>11. CASE ledger_sign_tx
  <2>1. /\ pc = "sign" /\ UNCHANGED <<args, NETWORK, tx, unsigned, signed>>
        /\ \/ /\ args.offline /\ pc' = "printed"
              /\ \E s : sent' = {[network |-> NETWORK, signature |-> s,
                                  tx |-> Json(tx, tx.valid_until, IF tx.memo = NoMemo THEN Absent ELSE tx.memo)]}
           \/ ~ args.offline /\ pc' = "combine" /\ sent' = sent
      BY <1>11 DEF ledger_sign_tx, fixed
  <2>2. IsTx(tx) /\ Json(tx, tx.valid_until, tx.memo) \in JsonTx /\ NETWORK \in Networks
      BY <1>1, <2>1 DEF TypedParts, HasTx, Building, TypeOK
  <2>3. Json(tx, tx.valid_until, IF tx.memo = NoMemo THEN Absent ELSE tx.memo) \in JsonTx
      BY <2>2 DEF Json, JsonTx
  <2>4. \A s \in sent' : s.network \in Networks /\ s.tx \in JsonTx
      BY <1>1, <2>1, <2>2, <2>3 DEF TypeOK
  <2>5. TypeOK'
      BY <1>1, <2>1, <2>4 DEF TypeOK, Json, Questions, Ended
  <2> QED BY <1>1, <2>1, <2>2, <2>5 DEF TInv, TypedParts, Online, HasTx, Building, After, Questions, Json, IsTx
<1>12. CASE rosetta_combine_request
  <2>1. PICK j \in Altered(unsigned), s \in {signature, Forged} :
            signed' = [tx |-> [j EXCEPT !.valid_until = tx.valid_until,
                                        !.memo = IF tx.memo = NoMemo THEN @ ELSE tx.memo],
                       signature |-> s]
      BY <1>12 DEF rosetta_combine_request
  <2>2. pc = "combine" /\ pc' = "parse signed" /\ ~ args.offline /\ UNCHANGED <<args, NETWORK, tx, unsigned, sent>>
      BY <1>1, <1>12 DEF rosetta_combine_request, fixed, Online, Questions
  <2>3. unsigned \in JsonTx /\ IsTx(tx) /\ Json(tx, tx.valid_until, tx.memo) \in JsonTx
      BY <1>1, <2>2 DEF TypedParts, HasTx, After
  <2>4. j \in JsonTx
      BY <2>1, <2>3, AlteredTyped
  <2>5. /\ tx.valid_until \in Int \union {Absent}
        /\ (IF tx.memo = NoMemo THEN j.memo ELSE tx.memo) \in Memos \union {Absent}
      BY <2>3, <2>4 DEF Json, JsonTx
  <2>6. signed'.tx \in JsonTx
      BY <2>1, <2>4, <2>5 DEF JsonTx
  <2>7. TypeOK'
      BY <1>1, <2>2, <2>6 DEF TypeOK, Json, Questions
  <2> QED BY <2>2, <2>3, <2>6, <2>7 DEF TInv, TypedParts, Online, Json, IsTx
<1>13. CASE ParseSigned /\ ~ \E how \in Ended : End(how)
  <2>1. pc = "parse signed" /\ pc' = "confirm send" /\ UNCHANGED <<args, NETWORK, tx, unsigned, signed, sent>>
      BY <1>13 DEF ParseSigned, Ended, fixed, outcome
  <2>2. TypeOK'
      BY <1>1, <2>1 DEF TypeOK, Json
  <2> QED BY <1>1, <2>1, <2>2 DEF TInv, TypedParts, Online, HasTx, Building, After, Questions, Json, IsTx
<1>14. CASE ConfirmSend
  <2>1. /\ pc = "confirm send" /\ pc' = "submit" /\ UNCHANGED <<args, NETWORK, tx, unsigned, signed>>
        /\ \E s : sent' = {[network |-> NETWORK, tx |-> signed.tx, signature |-> s]}
      BY <1>14 DEF ConfirmSend, fixed
  <2>2. signed.tx \in JsonTx /\ NETWORK \in Networks /\ ~ args.offline
      BY <1>1, <2>1 DEF TypedParts, TypeOK, Online
  <2>3. \A s \in sent' : s.network \in Networks /\ s.tx \in JsonTx
    <3>1. PICK given : sent' = {[network |-> NETWORK, tx |-> signed.tx, signature |-> given]}
        BY <2>1
    <3> QED BY <2>2, <3>1
  <2>4. TypeOK'
      BY <1>1, <2>1, <2>3 DEF TypeOK, Json, Questions
  <2> QED BY <1>1, <2>1, <2>2, <2>4 DEF TInv, TypedParts, Online, HasTx, Building, After, Questions, Json, IsTx
<1>15. CASE UNCHANGED vars
  <2>1. UNCHANGED <<pc, args, NETWORK, tx, unsigned, signed, sent>>
      BY <1>15 DEF vars
  <2> QED BY <1>1, <2>1 DEF TInv, TypeOK, TypedParts, Online, Json, IsTx
<1>16. CASE StartFails \/ NodeFails \/ Decline \/ DeviceRejects \/ DeviceRefuses \/ SignFails
            \/ rosetta_submit_request
  <2>1. \E how \in Ended : End(how)
      BY <1>16 DEF StartFails, NodeFails, Decline, DeviceRejects, DeviceRefuses, SignFails,
         rosetta_submit_request, Ended
  <2> QED BY <1>2, <2>1
<1> QED BY <1>2, <1>3, <1>4, <1>5, <1>6, <1>7, <1>8, <1>9, <1>10, <1>11, <1>12, <1>13, <1>14, <1>15, <1>16
        DEF Next

(* Whatever the node answers, each value of the wallet stays of its kind:  *)
(* what is compared, written out for the device and sent has every field,  *)
(* and the fields that may be missing are the two the code asks about.     *)
THEOREM WalletTyped == Spec => []TypeOK
<1>1. TInv => TypeOK
    BY DEF TInv
<1> QED BY InitTyped, StepTyped, <1>1, PTL DEF Spec
=============================================================================
