-------------------------- MODULE LedgerAppProofs --------------------------
(***************************************************************************)
(* Theorems about LedgerApp, for every set of keys, accounts, amounts and  *)
(* APDUs, for hosts that wait and hosts that do not: what is reviewed is   *)
(* what is signed; errors come alone, a pending request keeps a screen     *)
(* that will answer it, an address is only sent after it was shown; with a *)
(* host that waits each request gets one answer, of its own; and the app   *)
(* implements TxApproval, by the mapping of LedgerAppRefinement.           *)
(***************************************************************************)
EXTENDS LedgerAppRefinement, TLAPS

(* The parsing of a sign request leaves _tx and _ui within their types,    *)
(* however far it gets and whatever an unwritten buffer held.              *)
LEMMA WriteTxType ==
    ASSUME NEW old \in Tx, NEW p \in Payload, NEW stage \in 0 .. Accepted, NEW r \in Residues
    PROVE  WriteTx(old, p, stage, r) \in Tx
<1>1. TagBits(p.tag) \in BOOLEAN \X BOOLEAN \X BOOLEAN
    BY DEF TagBits, Bit
<1>2. read_public_key_compressed(p.from, r) \in Keys /\ read_public_key_compressed(p.to, r) \in Keys
    BY DEF read_public_key_compressed, Payload, Addresses, Residues
<1>3. p.account \in Uint32 /\ p.amount \in Currency /\ p.fee \in Currency /\ p.nonce \in Uint32
      /\ p.valid_until \in Uint32 /\ p.memo.text \in Memos /\ p.tag \in Byte /\ p.network_id \in Byte
    BY DEF Payload
<1> QED BY <1>1, <1>2, <1>3 DEF WriteTx, Tx

LEMMA PlusType ==
    ASSUME NEW a \in Currency, NEW b \in Currency
    PROVE  /\ Plus(a, b) \in Currency
           /\ Plus(a, b) >= a => a + b \in Currency /\ Plus(a, b) = a + b
BY ModulusAssumption DEF Plus, Currency

LEMMA WriteUiType ==
    ASSUME NEW old \in Ui, NEW p \in Payload, NEW stage \in 0 .. Accepted
    PROVE  WriteUi(old, p, stage) \in Ui
<1>1. p.amount \in Currency /\ p.fee \in Currency /\ p.nonce \in Uint32 /\ p.valid_until \in Uint32
      /\ p.memo.text \in Memos /\ p.from \in Addresses /\ p.to \in Addresses
    BY DEF Payload
<1>2. Plus(p.amount, p.fee) \in Currency
    BY <1>1, PlusType
<1>3. AmountText[p.amount] \in AmountTexts /\ AmountText[p.fee] \in AmountTexts
      /\ AmountText[Plus(p.amount, p.fee)] \in AmountTexts
    BY <1>1, <1>2 DEF AmountTexts
<1>4. ValueText[p.nonce] \in ValueTexts /\ ValueText[p.valid_until] \in ValueTexts
    BY <1>1 DEF ValueTexts
<1>5. TypeText(p.tag) \in {"Payment", "Delegation", NoText}
    BY DEF TypeText
<1> QED BY <1>1, <1>3, <1>4, <1>5 DEF WriteUi, Ui

LEMMA ParseStage ==
    ASSUME NEW p, NEW lc, NEW r
    PROVE  parse_tx(p, lc, r) \in 0 .. Accepted
BY DEF parse_tx, Accepted

(* An account has a key, below the hardened offset and above it.           *)
LEMMA KeyOfType == \A a \in Uint32 : KeyOf(a) \in PubKeys
BY ModulusAssumption, DeriveAssumption DEF KeyOf, Uint32

LEMMA CatchSwType == CatchSw(INVALID_PARAMETER) \in Words /\ CatchSw(INVALID_STATE) \in Words
BY DEF CatchSw, INVALID_PARAMETER, INVALID_STATE, Words

(* The zeroed statics.                                                     *)
LEMMA ZeroType == ZeroTx \in Tx /\ ZeroUi \in Ui
<1>1. ZeroTx \in Tx
  <2>1. 0 \in Uint32 /\ 0 \in Currency /\ 0 \in Byte /\ NoKey \in Keys
      BY ModulusAssumption DEF Uint32, Currency, Keys, Byte
  <2>2. <<FALSE, FALSE, FALSE>> \in BOOLEAN \X BOOLEAN \X BOOLEAN
      OBVIOUS
  <2> QED BY <2>1, <2>2, MemoAssumption DEF ZeroTx, Tx
<1>2. ZeroUi \in Ui
    BY MemoAssumption DEF ZeroUi, Ui, AmountTexts, ValueTexts, NoAddress, Addresses, Keys, Encodings
<1> QED BY <1>1, <1>2

LEMMA BlankType == Blank \in Addresses /\ 0 \in Uint32
BY ModulusAssumption DEF Blank, NoAddress, Addresses, Keys, Encodings, Uint32

LEMMA InitType == Init => TypeOK
<1> SUFFICES ASSUME Init PROVE TypeOK
    OBVIOUS
<1>1. ScreenOK
    BY DEF Init, ScreenOK, ui_idle, Screen, ux_idle_flow, Flows
<1>2. replies \in Seq(Replies) /\ staged \subseteq Replies
    BY DEF Init
<1>3. txState \in Tx /\ uiState \in Ui /\ account \in Uint32 /\ address \in Addresses
    BY ZeroType, BlankType DEF Init
<1>4. asynch \in BOOLEAN /\ outstanding \in BOOLEAN /\ generated \in BOOLEAN
    BY Zenon DEF Init
<1>5. pc \in {"exchange", "waiting", "exited"} /\ request \subseteq Apdus
    BY DEF Init
<1> QED BY <1>1, <1>2, <1>3, <1>4, <1>5 DEF TypeOK

----------------------------------------------------------------------------
(* Type correctness, one step per action.                                  *)

LEMMA ReplyType ==
    ASSUME NEW body \in Bodies, NEW sw \in Words
    PROVE  /\ [body |-> body, sw |-> sw] \in Replies
           /\ Staged(body, sw) \subseteq Replies
BY DEF Replies, Staged

LEMMA WordTypes ==
    /\ {SW_OK, SW_REJECTED, SW_NO_APDU, SW_BAD_CLA, SW_BAD_INS, SW_INVALID} \subseteq Words
    /\ \A apdu : Refusal(apdu) # 0 => Refusal(apdu) \in Words
BY DEF SW_OK, SW_REJECTED, SW_NO_APDU, SW_BAD_CLA, SW_BAD_INS, SW_INVALID, CatchSw,
       INVALID_PARAMETER, Words, Refusal

LEMMA BodyTypes ==
    /\ NoBody \in Bodies /\ VersionBody \in Bodies /\ SuccessBody \in Bodies
    /\ \A a \in Addresses : AddressBody(a) \in Bodies
BY DEF Bodies

(* The body of a signature, whatever is in _tx.                            *)
LEMMA SignatureType ==
    ASSUME NEW tx \in Tx
    PROVE  SignatureBody(KeyOf(tx.account), transaction_to_roinput(tx), tx.network_id) \in Bodies
<1>1. KeyOf(tx.account) \in PubKeys
    BY KeyOfType DEF Tx
<1>2. transaction_to_roinput(tx) \in Messages
    BY DEF Tx, Messages, transaction_to_roinput
<1>3. tx.network_id \in Byte
    BY DEF Tx
<1> QED BY <1>1, <1>2, <1>3 DEF SignatureBody, Bodies

(* The screens the handlers and callbacks put up.                          *)
LEMMA ScreenType ==
    ASSUME NEW f, NEW s, s \in f, f \in Flows \/ f \subseteq ReviewSteps, ux' = Screen(f, s)
    PROVE  ScreenOK'
BY DEF ScreenOK, Screen

LEMMA FixedScreens ==
    /\ {ux_idle_flow, ux_get_address_flow, ux_get_address_comfort_flow,
        ux_get_address_result_flow, ux_sign_tx_comfort_flow, ux_sign_tx_done_flow,
        ux_test_crypto_testing_flow, ux_test_crypto_done_flow} = Flows
    /\ "ready" \in ux_idle_flow /\ "addr_topic" \in ux_get_address_flow
    /\ "processing" \in ux_get_address_comfort_flow /\ "address" \in ux_get_address_result_flow
    /\ "signing" \in ux_sign_tx_comfort_flow /\ "signed" \in ux_sign_tx_done_flow
    /\ "testing" \in ux_test_crypto_testing_flow /\ "tested" \in ux_test_crypto_done_flow
BY DEF Flows, ux_idle_flow, ux_get_address_flow, ux_get_address_comfort_flow,
       ux_get_address_result_flow, ux_sign_tx_comfort_flow, ux_sign_tx_done_flow,
       ux_test_crypto_testing_flow, ux_test_crypto_done_flow

LEMMA ReviewFlow ==
    ASSUME NEW tx, NEW ui
    PROVE  /\ ux_sign_tx_flow(tx, ui) \subseteq ReviewSteps
           /\ "topic" \in ux_sign_tx_flow(tx, ui)
BY DEF ux_sign_tx_flow, ReviewSteps, TextPages

LEMMA IdleScreen == ux' = ui_idle => ScreenOK'
BY ScreenType, FixedScreens DEF ui_idle

(* The rest of the state, split by the part of the code that owns it.      *)
IoType ==
    /\ pc \in {"exchange", "waiting", "exited"}
    /\ asynch \in BOOLEAN
    /\ staged \subseteq Replies
    /\ outstanding \in BOOLEAN
    /\ request \subseteq Apdus
    /\ replies \in Seq(Replies)

SignType == txState \in Tx /\ uiState \in Ui
AddrType == account \in Uint32 /\ generated \in BOOLEAN /\ address \in Addresses

LEMMA TypeParts == TypeOK <=> IoType /\ ScreenOK /\ SignType /\ AddrType
BY DEF TypeOK, IoType, SignType, AddrType

LEMMA UnchangedTypes ==
    /\ UNCHANGED io /\ IoType => IoType'
    /\ UNCHANGED sign /\ SignType => SignType'
    /\ UNCHANGED addr /\ AddrType => AddrType'
    /\ UNCHANGED ux /\ ScreenOK => ScreenOK'
BY DEF io, sign, addr, IoType, SignType, AddrType, ScreenOK

LEMMA ReceiveType ==
    ASSUME IoType, NEW apdu \in Apdus, Receive(apdu),
           \/ \E body \in Bodies, sw \in Words : Answer(body, sw)
           \/ \E screen : AnswerLater(screen)
    PROVE  IoType'
<1>1. CASE \E body \in Bodies, sw \in Words : Answer(body, sw)
  <2>1. PICK body \in Bodies, sw \in Words : Answer(body, sw)
      BY <1>1
  <2>2. asynch' \in BOOLEAN /\ staged' \subseteq Replies
      BY <2>1, ReplyType DEF Answer
  <2> QED BY <2>2 DEF IoType, Receive
<1>2. CASE \E screen : AnswerLater(screen)
    BY <1>2 DEF IoType, Receive, AnswerLater
<1> QED BY <1>1, <1>2

LEMMA SendType ==
    ASSUME IoType, NEW body \in Bodies, NEW approve \in BOOLEAN, sendResponse(body, approve)
    PROVE  IoType' /\ ScreenOK'
<1>1. [body |-> IF approve THEN body ELSE NoBody, sw |-> IF approve THEN SW_OK ELSE SW_REJECTED]
        \in Replies
  <2>1. (IF approve THEN body ELSE NoBody) \in Bodies
      BY BodyTypes
  <2>2. (IF approve THEN SW_OK ELSE SW_REJECTED) \in Words
      BY WordTypes
  <2> QED BY <2>1, <2>2, ReplyType
<1>2. replies' \in Seq(Replies)
    BY <1>1 DEF sendResponse, IoType
<1>3. outstanding' \in BOOLEAN /\ UNCHANGED <<pc, asynch, staged, request>>
    BY Zenon DEF sendResponse
<1>4. IoType'
    BY <1>2, <1>3 DEF IoType
<1>5. ScreenOK'
    BY IdleScreen DEF sendResponse
<1> QED BY <1>4, <1>5

LEMMA ThrowType ==
    ASSUME IoType, NEW e \in {INVALID_PARAMETER, INVALID_STATE}, Throw(e),
           UNCHANGED <<outstanding, request, replies>>
    PROVE  IoType'
<1>1. staged' \subseteq Replies
    BY ReplyType, CatchSwType, BodyTypes DEF Throw
<1> QED BY <1>1 DEF Throw, IoType

LEMMA RestartType == Restart => IoType' /\ ScreenOK'
<1> SUFFICES ASSUME Restart PROVE IoType' /\ ScreenOK'
    OBVIOUS
<1>1. replies' \in Seq(Replies) /\ staged' \subseteq Replies /\ request' \subseteq Apdus
    BY DEF Restart
<1>2. pc' = "exchange" /\ asynch' \in BOOLEAN /\ outstanding' \in BOOLEAN
    BY Zenon DEF Restart
<1> QED BY <1>1, <1>2, IdleScreen DEF Restart, IoType

LEMMA ShowAddressType ==
    ASSUME IoType, ScreenOK, AddrType, ShowAddress
    PROVE  IoType' /\ ScreenOK' /\ AddrType'
<1> DEFINE screen == Screen(ux_get_address_result_flow, "address")
<1>1. CASE /\ address' = IF generated THEN address ELSE generate_address(KeyOf(account))
           /\ generated' = TRUE
           /\ ux' = screen
           /\ UNCHANGED <<io, account>>
  <2>1. generate_address(KeyOf(account)) \in Addresses
      BY KeyOfType DEF AddrType, generate_address, Addresses, Encodings, Keys
  <2>2. address' \in Addresses
      BY <1>1, <2>1 DEF AddrType
  <2>3. AddrType'
      BY <1>1, <2>2 DEF AddrType
  <2> QED BY <1>1, <2>3, FixedScreens, ScreenType, UnchangedTypes
<1>2. CASE CallbackThrows(screen, INVALID_PARAMETER) /\ UNCHANGED addr
  <2>1. IoType'
      BY <1>2, ThrowType DEF CallbackThrows
  <2> QED BY <1>2, <2>1, FixedScreens, ScreenType, UnchangedTypes DEF CallbackThrows
<1> QED BY <1>1, <1>2 DEF ShowAddress

LEMMA EnterStepType ==
    ASSUME IoType, ScreenOK, AddrType, NEW s \in ux.flow, EnterStep(s)
    PROVE  IoType' /\ ScreenOK' /\ AddrType'
<1>1. CASE ShowAddress
    BY <1>1, ShowAddressType
<1>2. CASE Draw(s)
    BY <1>2, ScreenType, UnchangedTypes DEF Draw, ScreenOK
<1> QED BY <1>1, <1>2 DEF EnterStep

(* One step preserves the types.                                           *)
LEMMA NextType == TypeOK /\ [Next]_vars => TypeOK'
<1> SUFFICES ASSUME IoType, ScreenOK, SignType, AddrType, [Next]_vars
             PROVE  IoType' /\ ScreenOK' /\ SignType' /\ AddrType'
    BY TypeParts DEF TypeOK, IoType, SignType, AddrType, ScreenOK
<1>1. CASE Exchange
  <2>1. IoType'
    <3>1. CASE asynch \/ staged = {}
        BY <1>1, <3>1 DEF Exchange, IoType
    <3>2. CASE ~ (asynch \/ staged = {})
      <4>1. PICK answer \in staged : replies' = Append(replies, answer)
          BY <1>1, <3>2 DEF Exchange
      <4>2. replies' \in Seq(Replies)
          BY <4>1 DEF IoType
      <4> QED BY <1>1, <3>2, <4>2 DEF Exchange, IoType
    <3> QED BY <3>1, <3>2
  <2> QED BY <1>1, <2>1, UnchangedTypes DEF Exchange
<1>2. CASE ExchangeThrows
    BY <1>2, ThrowType, UnchangedTypes DEF ExchangeThrows
<1>3. CASE RefuseApdu
  <2>1. PICK apdu \in Apdus : Receive(apdu) /\ Refusal(apdu) # 0 /\ Answer(NoBody, Refusal(apdu))
      BY <1>3 DEF RefuseApdu
  <2>2. IoType'
      BY <2>1, ReceiveType, WordTypes, BodyTypes
  <2> QED BY <1>3, <2>2, UnchangedTypes DEF RefuseApdu
<1>4. CASE GetConf
  <2>1. PICK apdu \in Apdus : Receive(apdu) /\ Answer(VersionBody, SW_OK)
      BY <1>4 DEF GetConf, Command
  <2>2. IoType'
      BY <2>1, ReceiveType, WordTypes, BodyTypes
  <2> QED BY <1>4, <2>2, UnchangedTypes DEF GetConf
<1>5. CASE handle_get_address
  <2>1. PICK apdu \in Apdus :
          /\ Receive(apdu) /\ apdu.ins = INS_GET_ADDR
          /\ IF apdu.lc # 4
                THEN RefuseParameter /\ UNCHANGED addr
                ELSE /\ generated' = FALSE /\ address' = Blank /\ account' = apdu.data
                     /\ AnswerLater(Screen(ux_get_address_flow, "addr_topic"))
      BY <1>5 DEF handle_get_address, Command
  <2>2. SignType'
      BY <1>5, UnchangedTypes DEF handle_get_address
  <2>3. CASE RefuseParameter /\ UNCHANGED addr
      BY <2>1, <2>2, <2>3, ReceiveType, WordTypes, BodyTypes, IdleScreen, UnchangedTypes
         DEF RefuseParameter
  <2>4. CASE /\ generated' = FALSE /\ address' = Blank /\ account' = apdu.data
             /\ AnswerLater(Screen(ux_get_address_flow, "addr_topic"))
    <3>1. IoType'
        BY <2>1, <2>4, ReceiveType
    <3>2. ScreenOK'
        BY <2>4, ScreenType, FixedScreens DEF AnswerLater
    <3>3. AddrType'
        BY <2>1, <2>4, ApduAssumption, BlankType DEF AddrType
    <3> QED BY <2>2, <3>1, <3>2, <3>3
  <2> QED BY <2>1, <2>3, <2>4
<1>6. CASE handle_sign_tx
  <2>1. PICK apdu \in Apdus, r \in Residues :
          /\ Receive(apdu) /\ apdu.ins = INS_SIGN_TX
          /\ txState' = WriteTx(txState, apdu.data, parse_tx(apdu.data, apdu.lc, r), r)
          /\ uiState' = WriteUi(uiState, apdu.data, parse_tx(apdu.data, apdu.lc, r))
          /\ \/ AnswerLater(Screen(ux_sign_tx_flow(txState', uiState'), "topic"))
             \/ RefuseParameter
      BY <1>6 DEF handle_sign_tx, Command
  <2>2. SignType'
      BY <2>1, ApduAssumption, ParseStage, WriteTxType, WriteUiType DEF SignType
  <2>3. AddrType'
      BY <1>6, UnchangedTypes DEF handle_sign_tx
  <2>4. CASE AnswerLater(Screen(ux_sign_tx_flow(txState', uiState'), "topic"))
    <3>1. IoType'
        BY <2>1, <2>4, ReceiveType
    <3>2. ScreenOK'
        BY <2>4, ScreenType, ReviewFlow DEF AnswerLater
    <3> QED BY <2>2, <2>3, <3>1, <3>2
  <2>5. CASE RefuseParameter
      BY <2>1, <2>2, <2>3, <2>5, ReceiveType, WordTypes, BodyTypes, IdleScreen DEF RefuseParameter
  <2> QED BY <2>1, <2>4, <2>5
<1>7. CASE handle_test_crypto
  <2>1. PICK apdu \in Apdus :
          /\ Receive(apdu)
          /\ \/ RefuseParameter
             \/ AnswerLater(Screen(ux_test_crypto_testing_flow, "testing"))
      BY <1>7 DEF handle_test_crypto, Command
  <2>2. SignType' /\ AddrType'
      BY <1>7, UnchangedTypes DEF handle_test_crypto
  <2>3. CASE RefuseParameter
      BY <2>1, <2>2, <2>3, ReceiveType, WordTypes, BodyTypes, IdleScreen DEF RefuseParameter
  <2>4. CASE AnswerLater(Screen(ux_test_crypto_testing_flow, "testing"))
      BY <2>1, <2>2, <2>4, ReceiveType, ScreenType, FixedScreens DEF AnswerLater
  <2> QED BY <2>1, <2>3, <2>4
<1>8. CASE FlowNext \/ FlowPrev
  <2>1. PICK s \in ux.flow : EnterStep(s)
      BY <1>8 DEF FlowNext, FlowPrev
  <2> QED BY <1>8, <2>1, EnterStepType, UnchangedTypes DEF FlowNext, FlowPrev
<1>9. CASE Approve \/ Reject
  <2>1. UNCHANGED <<sign, addr>>
      BY <1>9 DEF Approve, Reject
  <2>2. \E body \in Bodies, approve \in BOOLEAN : sendResponse(body, approve)
      BY <1>9, BodyTypes DEF Approve, Reject, AddrType
  <2> QED BY <2>1, <2>2, SendType, UnchangedTypes
<1>10. CASE Proceed
    BY <1>10, ScreenType, FixedScreens, UnchangedTypes DEF Proceed
<1>11. CASE Elapse
  <2>1. SignType'
      BY <1>11, UnchangedTypes DEF Elapse
  <2>2. CASE ShowAddress
      BY <2>1, <2>2, ShowAddressType
  <2>3. CASE sign_transaction /\ UNCHANGED addr
    <3>1. CASE sendResponse(SignatureBody(KeyOf(txState.account), transaction_to_roinput(txState),
                                          txState.network_id), TRUE)
        BY <2>1, <2>3, <3>1, SignatureType, SendType, UnchangedTypes DEF SignType
    <3>2. CASE CallbackThrows(Screen(ux_sign_tx_done_flow, "signed"), INVALID_PARAMETER)
        BY <2>1, <2>3, <3>2, ThrowType, ScreenType, FixedScreens, UnchangedTypes DEF CallbackThrows
    <3> QED BY <2>3, <3>1, <3>2 DEF sign_transaction
  <2>4. CASE test_crypto /\ UNCHANGED addr
    <3>1. CASE sendResponse(SuccessBody, TRUE)
        BY <2>1, <2>4, <3>1, BodyTypes, SendType, UnchangedTypes
    <3>2. CASE CallbackThrows(Screen(ux_test_crypto_done_flow, "tested"), INVALID_PARAMETER)
        BY <2>1, <2>4, <3>2, ThrowType, ScreenType, FixedScreens, UnchangedTypes DEF CallbackThrows
    <3> QED BY <2>4, <3>1, <3>2 DEF test_crypto
  <2> QED BY <1>11, <2>2, <2>3, <2>4 DEF Elapse
<1>12. CASE IoReset
  <2>1. IoType' /\ ScreenOK'
      BY <1>12, RestartType DEF IoReset
  <2> QED BY <1>12, <2>1, UnchangedTypes DEF IoReset
<1>13. CASE Quit
    BY <1>13, UnchangedTypes DEF Quit, IoType
<1>14. CASE Launch
  <2>1. IoType' /\ ScreenOK'
      BY <1>14, RestartType DEF Launch
  <2>2. SignType' /\ AddrType'
      BY <1>14, ZeroType, BlankType DEF Launch, SignType, AddrType
  <2> QED BY <2>1, <2>2
<1>15. CASE UNCHANGED vars
    BY <1>15, UnchangedTypes DEF vars
<1> QED BY <1>1, <1>2, <1>3, <1>4, <1>5, <1>6, <1>7, <1>8, <1>9, <1>10, <1>11, <1>12, <1>13,
           <1>14, <1>15 DEF Next

(* The app's variables stay within their types.                            *)
THEOREM TypeCorrect == Spec => []TypeOK
<1>1. Init => TypeOK
    BY InitType
<1>2. TypeOK /\ [Next]_vars => TypeOK'
    BY NextType
<1> QED BY <1>1, <1>2, PTL DEF Spec

----------------------------------------------------------------------------
(* What you see is what you sign.  SignedAsShown is not inductive: that a   *)
(* signature agrees with the pages drawn depends on what the review had on *)
(* screen before it, which ReviewInv adds.                                 *)

LEMMA ParsedMatches ==
    ASSUME NEW old \in Tx, NEW ui \in Ui, NEW p \in Payload, NEW lc, NEW r,
           p.from.enc # "undecodable", p.to.enc # "undecodable",
           parse_tx(p, lc, r) = Accepted
    PROVE  Matches(WriteTx(old, p, Accepted, r), WriteUi(ui, p, Accepted))
<1>1. /\ ~ Plus(p.amount, p.fee) < p.amount
      /\ p.tag \in {PAYMENT_TX, DELEGATION_TX}
      /\ p.network_id \in {TESTNET_ID, MAINNET_ID}
    BY DEF parse_tx, Accepted
<1>2. p.amount \in Currency /\ p.fee \in Currency
    BY DEF Payload
<1>3. p.amount + p.fee \in Currency /\ Plus(p.amount, p.fee) = p.amount + p.fee
  <2>1. Plus(p.amount, p.fee) \in Currency
      BY <1>2, PlusType
  <2>2. Plus(p.amount, p.fee) >= p.amount
      BY <1>1, <1>2, <2>1, ModulusAssumption DEF Currency
  <2> QED BY <1>2, <2>2, PlusType
<1> QED BY <1>1, <1>3 DEF Matches, WriteTx, WriteUi, Accepted, read_public_key_compressed

LEMMA FlowPages ==
    ASSUME NEW tx, NEW ui
    PROVE  /\ \A page \in ux_sign_tx_flow(tx, ui) \intersect TextPages :
                  Pos["topic"] < Pos[page] /\ Pos[page] <= Pos["approve"]
BY DEF TextPages, Pos

(* The order of a review is strict.                                        *)
LEMMA PosOrder ==
    /\ \A a \in ReviewSteps : Pos[a] \in Nat
    /\ \A a, b \in ReviewSteps : Pos[a] = Pos[b] => a = b
BY DEF ReviewSteps, TextPages, Pos

LEMMA TagBitsTell ==
    /\ TagBits(PAYMENT_TX) = <<FALSE, FALSE, FALSE>>
    /\ TagBits(DELEGATION_TX) = <<FALSE, FALSE, TRUE>>
    /\ TagBits(PAYMENT_TX) # TagBits(DELEGATION_TX)
<1>1. ~ Bit(0, 1) /\ ~ Bit(0, 2) /\ ~ Bit(0, 4)
    BY DEF Bit
<1>2. ~ Bit(4, 1) /\ ~ Bit(4, 2) /\ Bit(4, 4)
    BY DEF Bit
<1>3. /\ Bit(0, 1) = FALSE /\ Bit(0, 2) = FALSE /\ Bit(0, 4) = FALSE
      /\ Bit(4, 1) = FALSE /\ Bit(4, 2) = FALSE /\ Bit(4, 4) = TRUE
    BY <1>1, <1>2, Zenon DEF Bit
<1>4. /\ TagBits(PAYMENT_TX) = <<FALSE, FALSE, FALSE>>
      /\ TagBits(DELEGATION_TX) = <<FALSE, FALSE, TRUE>>
    BY <1>3, Zenon DEF TagBits, PAYMENT_TX, DELEGATION_TX
<1>5. TagBits(PAYMENT_TX)[3] # TagBits(DELEGATION_TX)[3]
  <2>1. <<FALSE, FALSE, FALSE>>[3] = FALSE /\ <<FALSE, FALSE, TRUE>>[3] = TRUE
      OBVIOUS
  <2> QED BY <1>4, <2>1, Zenon
<1> QED BY <1>4, <1>5, Zenon

(* sign_transaction at the end of "Signing...": everything that goes under *)
(* the signature has been on screen.                                       *)
LEMMA SignatureSeen ==
    ASSUME TypeOK, ReviewIsCurrent, ux.at = "signing",
           uiState.from = generate_address(KeyOf(txState.account))
    PROVE  SawWhatIsSigned(SignatureBody(KeyOf(txState.account), transaction_to_roinput(txState),
                                         txState.network_id))
<1> DEFINE sig == SignatureBody(KeyOf(txState.account), transaction_to_roinput(txState),
                                txState.network_id)
           msg == transaction_to_roinput(txState)
<1>1. /\ sig.key = KeyOf(txState.account) /\ sig.msg = msg
      /\ sig.network_id = txState.network_id
    BY DEF SignatureBody
<1>2. /\ msg.source_pk = txState.source_pk /\ msg.fee_payer_pk = txState.fee_payer_pk
      /\ msg.receiver_pk = txState.receiver_pk /\ msg.amount = txState.amount
      /\ msg.fee = txState.fee /\ msg.nonce = txState.nonce /\ msg.memo = txState.memo
      /\ msg.valid_until = txState.valid_until /\ msg.tag_bits = txState.tag_bits
    BY DEF transaction_to_roinput
<1>3. Matches(txState, uiState)
    BY DEF ReviewIsCurrent, SignScreen
<1>4. IsDelegation(msg) <=> txState.tag = DELEGATION_TX
  <2>1. txState.tag \in {PAYMENT_TX, DELEGATION_TX} /\ txState.tag_bits = TagBits(txState.tag)
      BY <1>3 DEF Matches
  <2>2. IsDelegation(msg) <=> TagBits(txState.tag) = TagBits(DELEGATION_TX)
      BY <1>2, <2>1, TagBitsTell, Zenon DEF IsDelegation
  <2> QED BY <2>1, <2>2, TagBitsTell, Zenon
<1>5. CalledFor(sig) = ReviewPages
    BY <1>1, <1>2, <1>3, <1>4 DEF CalledFor, ReviewPages, ux_sign_tx_flow, TextPages, Matches
<1>6. \A page \in seen : page[1] \in ReviewPages /\ page[2] = PageText(uiState, page[1])
    BY DEF ReviewIsCurrent, SignScreen
<1>7. \A page \in ReviewPages : <<page, PageText(uiState, page)>> \in seen
    BY DEF ReviewIsCurrent, SignScreen, DrawnSoFar
<1>8. {page[1] : page \in seen} = CalledFor(sig)
  <2>1. \A page \in seen : page[1] \in CalledFor(sig)
      BY <1>5, <1>6
  <2>2. \A page \in CalledFor(sig) : \E d \in seen : page = d[1]
      BY <1>5, <1>7
  <2> HIDE DEF sig
  <2> QED BY <2>1, <2>2
<1>9. \A page \in ReviewPages : Agrees(page, PageText(uiState, page), sig)
  <2> SUFFICES ASSUME NEW page \in ReviewPages
               PROVE  Agrees(page, PageText(uiState, page), sig)
      OBVIOUS
  <2>1. CASE page = "network"
      BY <1>1, <1>3, <2>1 DEF Agrees, PageText, ReviewPages, ux_sign_tx_flow, Matches,
         MAINNET_ID, TESTNET_ID
  <2>2. CASE page = "type"
      BY <1>1, <1>3, <1>4, <2>2 DEF Agrees, PageText, Matches, TypeText, PAYMENT_TX, DELEGATION_TX
  <2>3. CASE page = "from"
      BY <1>1, <1>2, <1>3, <2>3 DEF Agrees, PageText, Matches, generate_address
  <2>4. CASE page = "to"
      BY <1>1, <1>2, <1>3, <2>4 DEF Agrees, PageText, Matches
  <2>5. CASE page \in {"amount", "fee", "total"}
      BY <1>1, <1>2, <1>3, <2>5 DEF Agrees, PageText, Matches
  <2>6. CASE page \in {"nonce", "valid_until", "memo"}
      BY <1>1, <1>2, <1>3, <2>6 DEF Agrees, PageText, Matches
  <2> QED BY <2>1, <2>2, <2>3, <2>4, <2>5, <2>6 DEF ReviewPages, TextPages
<1> HIDE DEF sig
<1>10. \A page \in seen : Agrees(page[1], page[2], sig)
    BY <1>6, <1>9
<1>11. SawWhatIsSigned(sig)
    BY <1>8, <1>10 DEF SawWhatIsSigned
<1> QED BY <1>11 DEF sig

IInv == TypeOK /\ ReviewInv /\ SignedAsShown

NoneSigned == \A i \in DOMAIN replies : ~ IsSignature(replies[i])

LEMMA OtherScreen ==
    ASSUME NEW f, NEW s, s \notin ReviewSteps \union {"signing"}, ux' = Screen(f, s)
    PROVE  ReviewIsCurrent'
BY DEF ReviewIsCurrent, SignScreen, Reviewing, Screen

LEMMA IdleIsOther == ux' = ui_idle => ReviewIsCurrent' /\ ux'.flow = ux_idle_flow
<1> SUFFICES ASSUME ux' = ui_idle PROVE ReviewIsCurrent' /\ ux'.flow = ux_idle_flow
    OBVIOUS
<1>1. "ready" \notin ReviewSteps \union {"signing"}
    BY DEF ReviewSteps, TextPages
<1> QED BY <1>1, OtherScreen DEF ui_idle, Screen

(* Steps that leave the screen and the statics behind it alone.            *)
LEMMA Quiet ==
    ASSUME IInv, UNCHANGED <<ux, sign, seen>>, NoSignatureStaged',
           \A i \in DOMAIN replies' :
               IsSignature(replies'[i]) => i \in DOMAIN replies /\ replies'[i] = replies[i]
    PROVE  (ReviewInv /\ SignedAsShown)'
<1>1. ReviewIsCurrent'
    BY DEF IInv, ReviewInv, ReviewIsCurrent, SignScreen, Reviewing, ReviewPages, DrawnSoFar, sign
<1>2. SignatureEndsReview'
    BY DEF IInv, ReviewInv, SignatureEndsReview
<1>3. SignedAsShown'
    BY DEF IInv, SignedAsShown, SawWhatIsSigned
<1> QED BY <1>1, <1>2, <1>3 DEF ReviewInv

(* Steps after which no signature is out.                                  *)
LEMMA Unsigned ==
    ASSUME NoSignatureStaged', NoneSigned', ReviewIsCurrent'
    PROVE  (ReviewInv /\ SignedAsShown)'
BY DEF ReviewInv, SignatureEndsReview, SignedAsShown, NoneSigned

(* Steps that answer and bring the idle screen back.                       *)
LEMMA Answered ==
    ASSUME IInv, NEW body, NEW approve \in BOOLEAN, sendResponse(body, approve), UNCHANGED seen,
           approve /\ body.kind = "signature" => SawWhatIsSigned(body)
    PROVE  (ReviewInv /\ SignedAsShown)'
<1> DEFINE answer == [body |-> IF approve THEN body ELSE NoBody,
                      sw |-> IF approve THEN SW_OK ELSE SW_REJECTED]
<1>1. replies' = Append(replies, answer) /\ replies \in Seq(Replies)
    BY DEF sendResponse, IInv, TypeOK
<1>2. IsSignature(answer) => SawWhatIsSigned(answer.body)
  <2>1. CASE approve
      BY <2>1 DEF IsSignature
  <2>2. CASE ~ approve
      BY <2>2 DEF IsSignature, NoBody
  <2> QED BY <2>1, <2>2
<1>3. ReviewInv'
    BY IdleIsOther DEF sendResponse, IInv, ReviewInv, SignatureEndsReview, NoSignatureStaged
<1> HIDE DEF answer
<1>4. SignedAsShown'
  <2> SUFFICES ASSUME NEW i \in DOMAIN replies', IsSignature(replies'[i])
               PROVE  SawWhatIsSigned(replies'[i].body)
      BY DEF SignedAsShown, SawWhatIsSigned
  <2>1. CASE i \in DOMAIN replies
    <3>1. replies'[i] = replies[i]
        BY <1>1, <2>1
    <3> QED BY <2>1, <3>1 DEF IInv, SignedAsShown
  <2>2. CASE i = Len(replies) + 1
      BY <1>1, <1>2, <2>2
  <2> QED BY <1>1, <2>1, <2>2
<1> QED BY <1>3, <1>4

(* Steps in which a callback throws.                                       *)
LEMMA Thrown ==
    ASSUME IInv, ux.flow # ux_idle_flow, NEW f, NEW s, s \notin ReviewSteps \union {"signing"},
           NEW e, CallbackThrows(Screen(f, s), e)
    PROVE  (ReviewInv /\ SignedAsShown)'
<1>1. NoneSigned'
    BY DEF IInv, ReviewInv, SignatureEndsReview, NoneSigned, CallbackThrows
<1>2. NoSignatureStaged'
    BY DEF CallbackThrows, Throw, Staged, NoSignatureStaged, IsSignature, NoBody
<1>3. ReviewIsCurrent'
    BY OtherScreen DEF CallbackThrows
<1> QED BY <1>1, <1>2, <1>3, Unsigned

LEMMA Received ==
    ASSUME NEW apdu, Receive(apdu),
           \/ \E body \in {NoBody, VersionBody} : \E sw : Answer(body, sw)
           \/ \E screen : AnswerLater(screen)
    PROVE  NoneSigned' /\ NoSignatureStaged'
<1>1. NoneSigned'
    BY DEF Receive, NoneSigned
<1>2. NoSignatureStaged'
    BY DEF Answer, AnswerLater, Staged, NoSignatureStaged, IsSignature, NoBody, VersionBody
<1> QED BY <1>1, <1>2

(* Moving from page to page of a review.                                   *)
LEMMA ReviewMove ==
    ASSUME IInv, Reviewing, NEW s \in ux.flow, Draw(s), UNCHANGED sign,
           Follows(ux.flow, ux.at, s) \/ Follows(ux.flow, s, ux.at)
    PROVE  ReviewIsCurrent'
<1> DEFINE flow == ux_sign_tx_flow(txState, uiState)
<1>1. /\ Matches(txState, uiState) /\ ux.flow = flow
      /\ \A page \in seen : page[1] \in ReviewPages /\ page[2] = PageText(uiState, page[1])
      /\ \A page \in DrawnSoFar : <<page, PageText(uiState, page)>> \in seen
    BY DEF IInv, ReviewInv, ReviewIsCurrent, SignScreen
<1>2. flow \subseteq ReviewSteps /\ ux.at \in flow
    BY <1>1, ReviewFlow DEF IInv, TypeOK, ScreenOK
<1>3. ux' = Screen(flow, s) /\ seen' = seen \union Drawn(s) /\ UNCHANGED <<txState, uiState>>
    BY <1>1 DEF Draw, sign
<1>4. Drawn(s) = IF s \in TextPages THEN {<<s, PageText(uiState, s)>>} ELSE {}
    BY <1>1, <1>2 DEF Drawn, ReviewSteps, TextPages
<1>5. ReviewPages' = ReviewPages /\ ux'.at = s /\ ux'.flow = flow
    BY <1>3 DEF ReviewPages, Screen
<1>6. \A page \in DrawnSoFar' : page \in DrawnSoFar \/ page = s
  <2>1. \A page \in DrawnSoFar' : page \in ReviewPages /\ Pos[page] <= Pos[s]
      BY <1>1, <1>2, <1>5 DEF DrawnSoFar, ReviewSteps, TextPages
  <2>2. ~ (ux.flow = ux_idle_flow)
      BY <1>1, ReviewFlow DEF ux_idle_flow, ReviewSteps, TextPages
  <2>3. CASE Follows(ux.flow, ux.at, s)
    <3>1. \A c \in flow : Pos[ux.at] < Pos[c] => Pos[s] <= Pos[c]
        BY <1>1, <2>2, <2>3 DEF Follows
    <3> QED BY <1>1, <1>2, <2>1, <3>1, PosOrder DEF DrawnSoFar, ReviewPages
  <2>4. CASE Follows(ux.flow, s, ux.at)
    <3>1. Pos[s] < Pos[ux.at]
        BY <2>2, <2>4 DEF Follows
    <3> QED BY <1>1, <1>2, <2>1, <3>1, PosOrder DEF DrawnSoFar, ReviewPages
  <2> QED BY <2>3, <2>4
<1>7. \A page \in DrawnSoFar' : <<page, PageText(uiState, page)>> \in seen'
    BY <1>1, <1>3, <1>4, <1>6 DEF DrawnSoFar, ReviewPages
<1>8. \A page \in seen' : page[1] \in ReviewPages /\ page[2] = PageText(uiState, page[1])
    BY <1>1, <1>3, <1>4 DEF ReviewPages
<1>9. Matches(txState', uiState') /\ ux_sign_tx_flow(txState', uiState') = flow
    BY <1>1, <1>3
<1> QED BY <1>3, <1>5, <1>7, <1>8, <1>9 DEF ReviewIsCurrent

LEMMA ShownAddress ==
    ASSUME IInv, ux.flow # ux_idle_flow, ShowAddress
    PROVE  (ReviewInv /\ SignedAsShown)'
<1> DEFINE screen == Screen(ux_get_address_result_flow, "address")
<1>1. "address" \notin ReviewSteps \union {"signing"}
    BY DEF ReviewSteps, TextPages
<1>2. CASE ux' = screen /\ UNCHANGED io
  <2>1. NoneSigned' /\ NoSignatureStaged'
      BY <1>2 DEF io, IInv, ReviewInv, SignatureEndsReview, NoSignatureStaged, NoneSigned
  <2>2. ReviewIsCurrent'
      BY <1>1, <1>2, OtherScreen
  <2> QED BY <2>1, <2>2, Unsigned
<1>3. CASE CallbackThrows(screen, INVALID_PARAMETER)
    BY <1>1, <1>3, Thrown
<1> QED BY <1>2, <1>3 DEF ShowAddress

(* Next or previous page, whatever is on screen.                           *)
LEMMA Moved ==
    ASSUME IInv, NEW s \in ux.flow, EnterStep(s), UNCHANGED sign,
           Follows(ux.flow, ux.at, s) \/ Follows(ux.flow, s, ux.at)
    PROVE  (ReviewInv /\ SignedAsShown)'
<1>1. ScreenOK /\ ReviewInv
    BY DEF IInv, TypeOK
<1>2. CASE s = "address"
  <2>1. ux.flow # ux_idle_flow
      BY <1>2 DEF ux_idle_flow
  <2> QED BY <1>2, <2>1, ShownAddress DEF EnterStep
<1>3. CASE s # "address" /\ ux.flow = ux_idle_flow
  <2>1. Draw(s)
      BY <1>3 DEF EnterStep
  <2>2. Drawn(s) = {} /\ s \notin ReviewSteps \union {"signing"}
      BY <1>3 DEF Drawn, TextPages, ReviewSteps, ux_idle_flow
  <2>3. ux' = Screen(ux.flow, s) /\ seen' = seen /\ UNCHANGED io
      BY <2>1, <2>2 DEF Draw
  <2>4. ReviewInv'
      BY <1>1, <1>3, <2>2, <2>3, OtherScreen
         DEF Screen, io, ReviewInv, SignatureEndsReview, NoSignatureStaged
  <2>5. SignedAsShown'
      BY <2>3 DEF IInv, SignedAsShown, SawWhatIsSigned, io
  <2> QED BY <2>4, <2>5
<1>4. CASE s # "address" /\ ux.flow # ux_idle_flow
  <2>1. Draw(s)
      BY <1>4 DEF EnterStep
  <2>2. NoneSigned' /\ NoSignatureStaged'
      BY <1>1, <1>4, <2>1 DEF Draw, io, ReviewInv, SignatureEndsReview, NoSignatureStaged, NoneSigned
  <2>3. CASE Reviewing
      BY <1>4, <2>1, <2>2, <2>3, ReviewMove, Unsigned
  <2>4. CASE ~ Reviewing
    <3>1. s \notin ReviewSteps \union {"signing"}
      <4>1. ux.flow \in Flows /\ ux.at \in ux.flow
          BY <1>1, <2>4 DEF ScreenOK, Reviewing
      <4>2. s \notin ReviewSteps
          BY <4>1 DEF Flows, ReviewSteps, TextPages, ux_idle_flow, ux_get_address_flow,
             ux_get_address_comfort_flow, ux_get_address_result_flow, ux_sign_tx_comfort_flow,
             ux_sign_tx_done_flow, ux_test_crypto_testing_flow, ux_test_crypto_done_flow
      <4>3. s # "signing"
        <5>1. SUFFICES ASSUME s = "signing" PROVE FALSE
            OBVIOUS
        <5>2. ux.flow = ux_sign_tx_comfort_flow
            BY <4>1, <5>1 DEF Flows, ux_idle_flow, ux_get_address_flow,
               ux_get_address_comfort_flow, ux_get_address_result_flow, ux_sign_tx_comfort_flow,
               ux_sign_tx_done_flow, ux_test_crypto_testing_flow, ux_test_crypto_done_flow
        <5>3. ux.at = "signing" /\ Pos["signing"] = 1
            BY <4>1, <5>2 DEF ux_sign_tx_comfort_flow, Pos
        <5> QED BY <1>4, <5>1, <5>3 DEF Follows
      <4> QED BY <4>2, <4>3
    <3>2. ReviewIsCurrent'
        BY <2>1, <3>1, OtherScreen DEF Draw
    <3> QED BY <2>2, <3>2, Unsigned
  <2> QED BY <2>3, <2>4
<1> QED BY <1>2, <1>3, <1>4

(* Approve on the last page: every page of the review has been drawn.      *)
LEMMA Approved ==
    ASSUME IInv, ux.at = "approve", ux' = Screen(ux_sign_tx_comfort_flow, "signing"),
           UNCHANGED <<io, sign, seen>>
    PROVE  (ReviewInv /\ SignedAsShown)'
<1>1. Reviewing /\ ux.at \in ux.flow
    BY DEF Reviewing, ReviewSteps, IInv, TypeOK, ScreenOK
<1>2. /\ Matches(txState, uiState) /\ ux.flow = ux_sign_tx_flow(txState, uiState)
      /\ \A page \in seen : page[1] \in ReviewPages /\ page[2] = PageText(uiState, page[1])
      /\ \A page \in DrawnSoFar : <<page, PageText(uiState, page)>> \in seen
    BY <1>1 DEF IInv, ReviewInv, ReviewIsCurrent, SignScreen
<1>3. ReviewPages \subseteq DrawnSoFar
    BY FlowPages DEF DrawnSoFar, ReviewPages
<1>4. ux'.at = "signing" /\ "signing" \notin ReviewSteps
    BY DEF Screen, ReviewSteps, TextPages
<1>5. UNCHANGED <<txState, uiState, seen>> /\ ReviewPages' = ReviewPages
    BY DEF sign, ReviewPages
<1>6. ReviewIsCurrent'
    BY <1>2, <1>3, <1>4, <1>5 DEF ReviewIsCurrent, Reviewing, DrawnSoFar
<1>7. ux.flow # ux_idle_flow
    BY <1>1 DEF ux_idle_flow
<1>8. NoneSigned' /\ NoSignatureStaged'
    BY <1>7 DEF io, IInv, ReviewInv, SignatureEndsReview, NoSignatureStaged, NoneSigned
<1> QED BY <1>6, <1>8, Unsigned

(* A sign request that is accepted puts its own review on screen.          *)
LEMMA Offered ==
    ASSUME DecodableInputs, IInv, NEW apdu \in Apdus, NEW r \in Residues,
           Command(INS_SIGN_TX, apdu), parse_tx(apdu.data, apdu.lc, r) = Accepted,
           txState' = WriteTx(txState, apdu.data, Accepted, r),
           uiState' = WriteUi(uiState, apdu.data, Accepted),
           AnswerLater(Screen(ux_sign_tx_flow(txState', uiState'), "topic"))
    PROVE  (ReviewInv /\ SignedAsShown)'
<1>1. apdu.data \in Payload /\ apdu.lc = PayloadLength
    BY ApduAssumption DEF Command, parse_tx, Accepted
<1>2. apdu.data.from.enc # "undecodable" /\ apdu.data.to.enc # "undecodable"
    BY <1>1 DEF DecodableInputs, Command
<1>3. Matches(txState', uiState')
    BY <1>1, <1>2, ParsedMatches DEF IInv, TypeOK
<1>4. ux'.at = "topic" /\ ux'.flow = ux_sign_tx_flow(txState', uiState') /\ seen' = {}
    BY DEF AnswerLater, Screen
<1>5. DrawnSoFar' = {}
  <2>1. \A page \in ReviewPages' : Pos["topic"] < Pos[page]
      BY FlowPages DEF ReviewPages
  <2>2. \A page \in ReviewPages' : Pos["topic"] \in Nat /\ Pos[page] \in Nat
      BY PosOrder DEF ReviewPages, ReviewSteps
  <2>3. DrawnSoFar' \subseteq {page \in ReviewPages' : Pos[page] <= Pos["topic"]}
      BY <1>4 DEF DrawnSoFar
  <2> QED BY <2>1, <2>2, <2>3
<1>6. ReviewIsCurrent'
    BY <1>3, <1>4, <1>5 DEF ReviewIsCurrent
<1>7. NoneSigned' /\ NoSignatureStaged'
    BY Received DEF Command
<1> QED BY <1>6, <1>7, Unsigned

LEMMA ReviewInit == Init => ReviewInv /\ SignedAsShown
<1> SUFFICES ASSUME Init PROVE ReviewInv /\ SignedAsShown
    OBVIOUS
<1>1. ~ SignScreen
    BY DEF Init, ui_idle, Screen, SignScreen, Reviewing, ReviewSteps, TextPages
<1> QED BY <1>1 DEF Init, ReviewInv, ReviewIsCurrent, SignatureEndsReview, NoSignatureStaged,
        SignedAsShown

LEMMA ReviewNext == DecodableInputs /\ IInv /\ [Next]_vars => (ReviewInv /\ SignedAsShown)'
<1> SUFFICES ASSUME DecodableInputs, IInv, [Next]_vars
             PROVE  (ReviewInv /\ SignedAsShown)'
    OBVIOUS
<1>a. NoSignatureStaged /\ ux.at \in ux.flow /\ replies \in Seq(Replies)
    BY DEF IInv, TypeOK, ReviewInv, ScreenOK
<1>1. CASE Exchange
  <2>1. \A i \in DOMAIN replies' :
            IsSignature(replies'[i]) => i \in DOMAIN replies /\ replies'[i] = replies[i]
    <3>1. CASE asynch \/ staged = {}
        BY <1>1, <3>1 DEF Exchange
    <3>2. CASE ~ (asynch \/ staged = {})
      <4>1. PICK answer \in staged : replies' = Append(replies, answer)
          BY <1>1, <3>2 DEF Exchange
      <4> QED BY <1>a, <4>1 DEF NoSignatureStaged
    <3> QED BY <3>1, <3>2
  <2>2. NoSignatureStaged' /\ UNCHANGED <<ux, sign, seen>>
      BY <1>1 DEF Exchange, NoSignatureStaged
  <2> QED BY <2>1, <2>2, Quiet
<1>2. CASE ExchangeThrows
  <2>1. NoSignatureStaged' /\ UNCHANGED <<replies, ux, sign, seen>>
      BY <1>2 DEF ExchangeThrows, Throw, Staged, NoSignatureStaged, IsSignature, NoBody
  <2> QED BY <2>1, Quiet
<1>3. CASE RefuseApdu \/ GetConf
  <2>1. PICK apdu \in Apdus : Receive(apdu) /\ \E body \in {NoBody, VersionBody} : \E sw : Answer(body, sw)
      BY <1>3 DEF RefuseApdu, GetConf, Command
  <2>2. NoneSigned' /\ NoSignatureStaged'
      BY <2>1, Received
  <2>3. UNCHANGED <<ux, sign, seen>>
      BY <1>3 DEF RefuseApdu, GetConf
  <2> QED BY <2>2, <2>3, Quiet DEF NoneSigned
<1>4. ASSUME NEW apdu \in Apdus, Receive(apdu), RefuseParameter
      PROVE  (ReviewInv /\ SignedAsShown)'
    BY <1>4, Received, IdleIsOther, Unsigned DEF RefuseParameter
<1>5. ASSUME NEW apdu \in Apdus, Receive(apdu), NEW f, NEW s, AnswerLater(Screen(f, s)),
             s \notin ReviewSteps \union {"signing"}
      PROVE  (ReviewInv /\ SignedAsShown)'
  <2>1. ReviewIsCurrent'
      BY <1>5, OtherScreen DEF AnswerLater
  <2> QED BY <1>5, <2>1, Received, Unsigned
<1>6. CASE handle_get_address
  <2>1. PICK apdu \in Apdus :
          Receive(apdu) /\ (RefuseParameter \/ AnswerLater(Screen(ux_get_address_flow, "addr_topic")))
      BY <1>6 DEF handle_get_address, Command
  <2>2. "addr_topic" \notin ReviewSteps \union {"signing"}
      BY DEF ReviewSteps, TextPages
  <2> QED BY <1>4, <1>5, <2>1, <2>2
<1>7. CASE handle_test_crypto
  <2>1. PICK apdu \in Apdus :
          Receive(apdu) /\ (RefuseParameter \/ AnswerLater(Screen(ux_test_crypto_testing_flow, "testing")))
      BY <1>7 DEF handle_test_crypto, Command
  <2>2. "testing" \notin ReviewSteps \union {"signing"}
      BY DEF ReviewSteps, TextPages
  <2> QED BY <1>4, <1>5, <2>1, <2>2
<1>8. CASE handle_sign_tx
  <2>1. PICK apdu \in Apdus, r \in Residues :
          /\ Command(INS_SIGN_TX, apdu)
          /\ txState' = WriteTx(txState, apdu.data, parse_tx(apdu.data, apdu.lc, r), r)
          /\ uiState' = WriteUi(uiState, apdu.data, parse_tx(apdu.data, apdu.lc, r))
          /\ IF parse_tx(apdu.data, apdu.lc, r) = Accepted
                THEN AnswerLater(Screen(ux_sign_tx_flow(txState', uiState'), "topic"))
                ELSE RefuseParameter
      BY <1>8 DEF handle_sign_tx
  <2>2. CASE parse_tx(apdu.data, apdu.lc, r) = Accepted
      BY <2>1, <2>2, Offered
  <2>3. CASE parse_tx(apdu.data, apdu.lc, r) # Accepted
      BY <1>4, <2>1, <2>3 DEF Command
  <2> QED BY <2>2, <2>3
<1>9. CASE FlowNext \/ FlowPrev
  <2>1. PICK s \in ux.flow :
          EnterStep(s) /\ (Follows(ux.flow, ux.at, s) \/ Follows(ux.flow, s, ux.at))
      BY <1>9 DEF FlowNext, FlowPrev
  <2> QED BY <1>9, <2>1, Moved DEF FlowNext, FlowPrev
<1>10. CASE Approve
  <2>1. "address" # "signature" /\ AddressBody(address).kind = "address"
      BY DEF AddressBody
  <2> QED BY <1>10, <2>1, Answered DEF Approve
<1>11. CASE Reject
    BY <1>11, Answered DEF Reject
<1>12. CASE Proceed
  <2>1. CASE ux.at = "approve" /\ ux' = Screen(ux_sign_tx_comfort_flow, "signing")
      BY <1>12, <2>1, Approved DEF Proceed
  <2>2. CASE ux.at = "generate" /\ ux' = Screen(ux_get_address_comfort_flow, "processing")
    <3>1. "processing" \notin ReviewSteps \union {"signing"}
        BY DEF ReviewSteps, TextPages
    <3>2. ReviewIsCurrent'
        BY <2>2, <3>1, OtherScreen
    <3>3. NoneSigned' /\ NoSignatureStaged'
        BY <1>12, <1>a, <2>2 DEF Proceed, io, IInv, ReviewInv, SignatureEndsReview,
           NoSignatureStaged, NoneSigned, ux_idle_flow
    <3> QED BY <3>2, <3>3, Unsigned
  <2> QED BY <1>12, <2>1, <2>2 DEF Proceed
<1>13. CASE Elapse
  <2>1. ux.flow # ux_idle_flow
      BY <1>13, <1>a DEF Elapse, ux_idle_flow
  <2>2. CASE ShowAddress
      BY <2>1, <2>2, ShownAddress
  <2>3. CASE ux.at = "signing" /\ sign_transaction /\ UNCHANGED seen
    <3>1. CASE /\ uiState.from = generate_address(KeyOf(txState.account))
               /\ sendResponse(SignatureBody(KeyOf(txState.account),
                                    transaction_to_roinput(txState), txState.network_id), TRUE)
        BY <2>3, <3>1, SignatureSeen, Answered DEF IInv, ReviewInv
    <3>2. CASE CallbackThrows(Screen(ux_sign_tx_done_flow, "signed"), INVALID_PARAMETER)
      <4>1. "signed" \notin ReviewSteps \union {"signing"}
          BY DEF ReviewSteps, TextPages
      <4> QED BY <2>1, <3>2, <4>1, Thrown
    <3> QED BY <2>3, <3>1, <3>2 DEF sign_transaction
  <2>4. CASE test_crypto /\ UNCHANGED seen
    <3>1. CASE sendResponse(SuccessBody, TRUE)
        BY <2>4, <3>1, Answered DEF SuccessBody
    <3>2. CASE CallbackThrows(Screen(ux_test_crypto_done_flow, "tested"), INVALID_PARAMETER)
      <4>1. "tested" \notin ReviewSteps \union {"signing"}
          BY DEF ReviewSteps, TextPages
      <4> QED BY <2>1, <3>2, <4>1, Thrown
    <3> QED BY <2>4, <3>1, <3>2 DEF test_crypto
  <2> QED BY <1>13, <2>2, <2>3, <2>4 DEF Elapse
<1>14. CASE IoReset \/ Launch
  <2>1. NoneSigned' /\ NoSignatureStaged' /\ ux' = ui_idle
      BY <1>14 DEF IoReset, Launch, Restart, NoneSigned, NoSignatureStaged
  <2> QED BY <2>1, IdleIsOther, Unsigned
<1>15. CASE Quit \/ UNCHANGED vars
  <2>1. UNCHANGED <<ux, sign, seen, staged, replies>>
      BY <1>15 DEF Quit, vars, io
  <2> QED BY <1>a, <2>1, Quiet DEF NoSignatureStaged
<1> QED BY <1>1, <1>2, <1>3, <1>6, <1>7, <1>8, <1>9, <1>10, <1>11, <1>12, <1>13, <1>14, <1>15 DEF Next

(* The invariant the safety of signing rests on.                           *)
THEOREM ReviewSound == ASSUME DecodableInputs PROVE Spec => []ReviewInv
<1>1. Init => IInv
    BY InitType, ReviewInit DEF IInv
<1>2. IInv /\ [Next]_vars => IInv'
    BY NextType, ReviewNext DEF IInv
<1>3. IInv => ReviewInv
    BY DEF IInv
<1> QED BY <1>1, <1>2, <1>3, PTL DEF Spec

(* What you see is what you sign, for every device, host and user: when a  *)
(* signature leaves the device, exactly the pages its message calls for    *)
(* have been drawn since its review began, and each showed what is signed. *)
THEOREM SignedIsShown == ASSUME DecodableInputs PROVE Spec => []SignedAsShown
<1>1. Init => IInv
    BY InitType, ReviewInit DEF IInv
<1>2. IInv /\ [Next]_vars => IInv'
    BY NextType, ReviewNext DEF IInv
<1>3. IInv => SignedAsShown
    BY DEF IInv
<1> QED BY <1>1, <1>2, <1>3, PTL DEF Spec

----------------------------------------------------------------------------
(* The answers.                                                            *)

(* What a step puts into the buffer for the next exchange.                 *)
LEMMA StagedBy ==
    ASSUME [Next]_vars, NEW answer \in staged'
    PROVE  \/ answer \in staged
           \/ answer.body = NoBody
           \/ answer.body = VersionBody /\ answer.sw = SW_OK
<1>1. CASE \E sw : Answer(NoBody, sw)
    BY <1>1 DEF Answer, Staged
<1>2. CASE \E e : Throw(e)
    BY <1>2 DEF Throw, Staged
<1>3. CASE Answer(VersionBody, SW_OK)
    BY <1>3 DEF Answer, Staged
<1>4. CASE staged' = {} \/ UNCHANGED staged
    BY <1>4
<1>5. CASE RefuseApdu \/ GetConf \/ handle_get_address \/ handle_sign_tx \/ handle_test_crypto
    BY <1>1, <1>3, <1>4, <1>5 DEF RefuseApdu, GetConf, handle_get_address, handle_sign_tx,
       handle_test_crypto, RefuseParameter, AnswerLater
<1>6. CASE Exchange \/ ExchangeThrows \/ IoReset \/ Launch \/ Quit \/ UNCHANGED vars
    BY <1>2, <1>4, <1>6 DEF Exchange, ExchangeThrows, IoReset, Launch, Restart, Quit, vars, io
<1>7. CASE FlowNext \/ FlowPrev
  <2>1. PICK s : EnterStep(s)
      BY <1>7 DEF FlowNext, FlowPrev
  <2> QED BY <1>2, <1>4, <2>1 DEF EnterStep, ShowAddress, Draw, CallbackThrows, io
<1>8. CASE Approve \/ Reject \/ Proceed
    BY <1>4, <1>8 DEF Approve, Reject, Proceed, sendResponse, io
<1>9. CASE Elapse
    BY <1>2, <1>4, <1>9 DEF Elapse, ShowAddress, sign_transaction, test_crypto, sendResponse,
       CallbackThrows, io
<1> QED BY <1>5, <1>6, <1>7, <1>8, <1>9 DEF Next

(* What a step sends.                                                      *)
LEMMA SentBy ==
    ASSUME TypeOK, [Next]_vars, NEW i \in DOMAIN replies'
    PROVE  \/ i \in DOMAIN replies /\ replies'[i] = replies[i]
           \/ replies'[i] \in staged
           \/ ux' = ui_idle /\ (replies'[i].body = NoBody \/ replies'[i].sw = SW_OK)
<1>1. replies \in Seq(Replies)
    BY DEF TypeOK
<1>2. CASE UNCHANGED replies \/ replies' = <<>>
    BY <1>2
<1>3. CASE \E answer : replies' = Append(replies, answer) /\ answer \in staged
  <2>1. PICK answer : replies' = Append(replies, answer) /\ answer \in staged
      BY <1>3
  <2> QED BY <1>1, <2>1 DEF TypeOK
<1>4. ASSUME NEW body, NEW approve \in BOOLEAN, sendResponse(body, approve)
      PROVE  \/ i \in DOMAIN replies /\ replies'[i] = replies[i]
             \/ ux' = ui_idle /\ (replies'[i].body = NoBody \/ replies'[i].sw = SW_OK)
  <2> DEFINE answer == [body |-> IF approve THEN body ELSE NoBody,
                        sw |-> IF approve THEN SW_OK ELSE SW_REJECTED]
  <2>1. replies' = Append(replies, answer) /\ ux' = ui_idle
      BY <1>4 DEF sendResponse
  <2>2. answer.body = NoBody \/ answer.sw = SW_OK
      OBVIOUS
  <2> HIDE DEF answer
  <2> QED BY <1>1, <2>1, <2>2
<1>5. CASE Exchange
    BY <1>2, <1>3, <1>5 DEF Exchange
<1>6. CASE RefuseApdu \/ GetConf \/ handle_get_address \/ handle_sign_tx \/ handle_test_crypto
    BY <1>2, <1>6 DEF RefuseApdu, GetConf, handle_get_address, handle_sign_tx,
       handle_test_crypto, Command, Receive
<1>7. CASE ExchangeThrows \/ IoReset \/ Launch \/ Quit \/ Proceed \/ UNCHANGED vars
    BY <1>2, <1>7 DEF ExchangeThrows, IoReset, Launch, Restart, Quit, Proceed, vars, io
<1>8. CASE FlowNext \/ FlowPrev
  <2>1. PICK s : EnterStep(s)
      BY <1>8 DEF FlowNext, FlowPrev
  <2> QED BY <1>2, <2>1 DEF EnterStep, ShowAddress, Draw, CallbackThrows, io
<1>9. CASE Approve \/ Reject
    BY <1>4, <1>9 DEF Approve, Reject
<1>10. CASE Elapse
    BY <1>2, <1>4, <1>10 DEF Elapse, ShowAddress, sign_transaction, test_crypto, CallbackThrows, io
<1> QED BY <1>5, <1>6, <1>7, <1>8, <1>9, <1>10 DEF Next

----------------------------------------------------------------------------
(* The buffer holds nothing that may not be sent.                          *)
BufferAlone == \A answer \in staged : answer.sw # SW_OK => answer.body = NoBody

(* An answer that is not 0x9000 is a status word and nothing else, whoever *)
(* throws and whenever: ErrorsCarryNoBody for every host and build.        *)
THEOREM ErrorsAlone == Spec => []ErrorsCarryNoBody
<1> DEFINE EInv == TypeOK /\ BufferAlone /\ ErrorsCarryNoBody
<1>1. Init => EInv
    BY InitType DEF Init, BufferAlone, ErrorsCarryNoBody
<1>2. EInv /\ [Next]_vars => EInv'
  <2> SUFFICES ASSUME EInv, [Next]_vars PROVE EInv'
      OBVIOUS
  <2>1. BufferAlone'
      BY StagedBy DEF BufferAlone
  <2>2. ErrorsCarryNoBody'
    <3> SUFFICES ASSUME NEW i \in DOMAIN replies', replies'[i].sw # SW_OK
                 PROVE  replies'[i].body = NoBody
        BY DEF ErrorsCarryNoBody
    <3> QED BY SentBy DEF BufferAlone, ErrorsCarryNoBody
  <2> QED BY <2>1, <2>2, NextType
<1>3. EInv => ErrorsCarryNoBody
    OBVIOUS
<1> QED BY <1>1, <1>2, <1>3, PTL DEF Spec

----------------------------------------------------------------------------
(* Where the answer to the pending request will come from: a screen, or    *)
(* the buffer on its way to the next exchange.                             *)
Owed ==
    outstanding /\ pc # "exited" =>
        \/ asynch /\ ux.at \in AnsweringSteps
        \/ pc = "exchange" /\ ~ asynch /\ staged # {}

(* A flow that answers has no step that does not.                          *)
LEMMA AnsweringFlow ==
    ASSUME ScreenOK, ux.at \in AnsweringSteps, NEW s \in ux.flow
    PROVE  s \in AnsweringSteps
<1>1. CASE ux.flow \subseteq ReviewSteps
    BY <1>1 DEF AnsweringSteps, Steps, ReviewSteps, TextPages, ux_idle_flow
<1>2. CASE ux.flow \in Flows
    BY <1>2 DEF ScreenOK, Flows, AnsweringSteps, Steps, ux_idle_flow, ux_get_address_flow,
       ux_get_address_comfort_flow, ux_get_address_result_flow, ux_sign_tx_comfort_flow,
       ux_sign_tx_done_flow, ux_test_crypto_testing_flow, ux_test_crypto_done_flow
<1> QED BY <1>1, <1>2 DEF ScreenOK

LEMMA WorkAnswers ==
    /\ {"processing", "signing", "testing", "addr_topic", "topic", "address"} \subseteq AnsweringSteps
BY DEF AnsweringSteps, Steps, ReviewSteps, ux_idle_flow, ux_get_address_flow,
   ux_get_address_comfort_flow, ux_get_address_result_flow, ux_sign_tx_comfort_flow,
   ux_test_crypto_testing_flow

LEMMA OwedNext == TypeOK /\ Owed /\ [Next]_vars => Owed'
<1> SUFFICES ASSUME TypeOK, Owed, [Next]_vars PROVE Owed'
    OBVIOUS
<1>a. ScreenOK
    BY DEF TypeOK
<1>1. CASE Exchange
    BY <1>1 DEF Exchange, Owed
<1>2. CASE \E e : Throw(e)
    BY <1>2 DEF Throw, Staged, Owed
<1>3. ASSUME NEW apdu, Receive(apdu), NEW body, NEW sw, Answer(body, sw)
      PROVE  Owed'
    BY <1>3 DEF Receive, Answer, Staged, Owed
<1>4. ASSUME NEW apdu, Receive(apdu), NEW f, NEW s \in {"addr_topic", "topic", "testing"},
             AnswerLater(Screen(f, s))
      PROVE  Owed'
    BY <1>4, WorkAnswers DEF Receive, AnswerLater, Screen, Owed
<1>5. CASE RefuseApdu \/ GetConf
    BY <1>3, <1>5 DEF RefuseApdu, GetConf, Command
<1>6. CASE handle_get_address
    BY <1>3, <1>4, <1>6 DEF handle_get_address, Command, RefuseParameter
<1>7. CASE handle_sign_tx
    BY <1>3, <1>4, <1>7 DEF handle_sign_tx, Command, RefuseParameter
<1>8. CASE handle_test_crypto
    BY <1>3, <1>4, <1>8 DEF handle_test_crypto, Command, RefuseParameter
<1>9. ASSUME NEW s \in AnsweringSteps, NEW f, ux' = Screen(f, s), UNCHANGED io,
             pc = "waiting" => ux.at \in AnsweringSteps \/ ~ outstanding
      PROVE  Owed'
    BY <1>9 DEF io, Screen, Owed
<1>10. ASSUME ShowAddress, pc = "waiting" PROVE Owed'
    BY <1>2, <1>9, <1>10, WorkAnswers DEF ShowAddress, CallbackThrows, Owed
<1>11. ASSUME NEW body, NEW approve, sendResponse(body, approve) PROVE Owed'
    BY <1>11 DEF sendResponse, Owed
<1>12. CASE FlowNext \/ FlowPrev
  <2>1. PICK s \in ux.flow : EnterStep(s)
      BY <1>12 DEF FlowNext, FlowPrev
  <2>2. pc = "waiting"
      BY <1>12 DEF FlowNext, FlowPrev
  <2>3. CASE ShowAddress
      BY <1>10, <2>2, <2>3
  <2>4. CASE Draw(s)
      BY <1>a, <2>1, <2>2, <2>4, AnsweringFlow DEF Draw, io, Screen, Owed
  <2> QED BY <2>1, <2>3, <2>4 DEF EnterStep
<1>13. CASE Approve \/ Reject
    BY <1>11, <1>13 DEF Approve, Reject
<1>14. CASE Proceed
    BY <1>9, <1>14, WorkAnswers DEF Proceed, Owed
<1>15. CASE Elapse
    BY <1>2, <1>10, <1>11, <1>15 DEF Elapse, sign_transaction, test_crypto, CallbackThrows
<1>16. CASE ExchangeThrows
    BY <1>2, <1>16 DEF ExchangeThrows
<1>17. CASE IoReset \/ Launch \/ Quit
    BY <1>17 DEF IoReset, Launch, Restart, Quit, Owed
<1>18. CASE UNCHANGED vars
    BY <1>18 DEF vars, io, Owed
<1> QED BY <1>1, <1>5, <1>6, <1>7, <1>8, <1>12, <1>13, <1>14, <1>15, <1>16, <1>17, <1>18 DEF Next

(* No request is forgotten: PendingHasScreen for every host and build,     *)
(* whatever fails.                                                         *)
THEOREM PendingKeepsScreen == Spec => []PendingHasScreen
<1>1. Init => TypeOK /\ Owed
    BY InitType DEF Init, Owed
<1>2. TypeOK /\ Owed /\ [Next]_vars => (TypeOK /\ Owed)'
    BY NextType, OwedNext
<1>3. TypeOK /\ Owed => PendingHasScreen
    BY DEF Owed, PendingHasScreen
<1> QED BY <1>1, <1>2, <1>3, PTL DEF Spec

----------------------------------------------------------------------------
(* Where an address comes from.  AddressAsShown is not inductive: it needs *)
(* what the steps before the approval have drawn, and whose the address is.*)
ResultSteps == {"address", "addr_approve", "addr_reject"}
AfterPath   == {"path", "generate", "cancel", "processing"} \union ResultSteps

PathDrawn   == ux.at \in AfterPath => <<"path", ValueText[account]>> \in seen
ResultDrawn == ux.at \in ResultSteps => generated /\ <<"address", address>> \in seen
Derived     == generated => address = generate_address(KeyOf(account))
NoneStaged  == \A answer \in staged : answer.body.kind # "address"

AddrInv == TypeOK /\ PathDrawn /\ ResultDrawn /\ Derived /\ NoneStaged /\ AddressAsShown

NoneSent == \A i \in DOMAIN replies : replies[i].body.kind # "address"

(* A step that comes after the path is entered from one that does, or is   *)
(* the path itself; so are the steps after the address.                    *)
LEMMA AfterPathMoves ==
    ASSUME ScreenOK, NEW s \in ux.flow, Follows(ux.flow, ux.at, s) \/ Follows(ux.flow, s, ux.at)
    PROVE  /\ s \in AfterPath \ {"path"} => ux.at \in AfterPath
           /\ s \in ResultSteps \ {"address"} => ux.at \in ResultSteps
<1>1. CASE ux.flow \subseteq ReviewSteps
    BY <1>1 DEF AfterPath, ResultSteps, ReviewSteps, TextPages
<1>2. CASE ux.flow = ux_get_address_flow
    BY <1>2 DEF ScreenOK, Follows, AfterPath, ResultSteps, Pos, ux_get_address_flow, ux_idle_flow
<1>3. CASE ux.flow \in {ux_get_address_comfort_flow, ux_get_address_result_flow}
    BY <1>3 DEF ScreenOK, Follows, AfterPath, ResultSteps, Pos, ux_get_address_comfort_flow,
       ux_get_address_result_flow, ux_idle_flow
<1>4. CASE ux.flow \in Flows \ {ux_get_address_flow, ux_get_address_comfort_flow,
                               ux_get_address_result_flow}
    BY <1>4 DEF Flows, AfterPath, ResultSteps, ux_idle_flow, ux_sign_tx_comfort_flow,
       ux_sign_tx_done_flow, ux_test_crypto_testing_flow, ux_test_crypto_done_flow
<1> QED BY <1>1, <1>2, <1>3, <1>4 DEF ScreenOK

(* A screen that is not one of the address command's.                      *)
LEMMA NotAfterPath ==
    ASSUME NEW f, NEW s, s \notin AfterPath, ux' = Screen(f, s)
    PROVE  PathDrawn' /\ ResultDrawn'
BY DEF PathDrawn, ResultDrawn, AfterPath, Screen

LEMMA OtherSteps ==
    {"ready", "addr_topic", "topic", "signing", "signed", "testing", "tested"} \intersect AfterPath = {}
BY DEF AfterPath, ResultSteps

(* An address request that just arrived, or any other, owes nothing yet.   *)
LEMMA NothingSentYet ==
    ASSUME NEW apdu, Receive(apdu)
    PROVE  AddressAsShown'
BY DEF Receive, AddressAsShown

(* Steps that send no address.                                             *)
LEMMA NoAddressSent ==
    ASSUME AddressAsShown, UNCHANGED account, seen \subseteq seen',
           \A i \in DOMAIN replies' :
               replies'[i].body.kind = "address" => i \in DOMAIN replies /\ replies'[i] = replies[i]
    PROVE  AddressAsShown'
BY DEF AddressAsShown

LEMMA AddressShown ==
    ASSUME ~ CryptoMayFail, AddrInv, ShowAddress, ux.at \in AfterPath, UNCHANGED sign
    PROVE  AddrInv'
<1>1. /\ address' = IF generated THEN address ELSE generate_address(KeyOf(account))
      /\ generated' = TRUE
      /\ ux' = Screen(ux_get_address_result_flow, "address")
      /\ seen' = seen \union {<<"address", address'>>}
      /\ UNCHANGED <<io, account>>
    BY DEF ShowAddress
<1>2. address' = generate_address(KeyOf(account))
    BY <1>1 DEF AddrInv, Derived
<1>3. TypeOK'
    BY ShowAddressType, TypeParts, UnchangedTypes DEF AddrInv, TypeOK, IoType, SignType, AddrType, sign
<1>4. PathDrawn' /\ ResultDrawn'
    BY <1>1 DEF AddrInv, PathDrawn, ResultDrawn
<1>5. Derived' /\ NoneStaged'
    BY <1>1, <1>2 DEF AddrInv, Derived, NoneStaged, io
<1>6. AddressAsShown'
    BY <1>1, NoAddressSent DEF AddrInv, io
<1> QED BY <1>3, <1>4, <1>5, <1>6 DEF AddrInv

(* Steps that leave the address command alone and answer nothing with it.  *)
LEMMA ElsewhereKept ==
    ASSUME AddrInv, TypeOK', UNCHANGED <<addr, seen>>, ux' = ux \/ ux'.at \notin AfterPath,
           NoneStaged',
           \A i \in DOMAIN replies' :
               replies'[i].body.kind = "address" => i \in DOMAIN replies /\ replies'[i] = replies[i]
    PROVE  AddrInv'
<1>1. PathDrawn' /\ ResultDrawn'
    BY DEF AddrInv, PathDrawn, ResultDrawn, AfterPath, addr
<1>2. Derived'
    BY DEF AddrInv, Derived, addr
<1>3. AddressAsShown'
    BY NoAddressSent DEF AddrInv, addr
<1> QED BY <1>1, <1>2, <1>3 DEF AddrInv

(* Steps that answer with a body that is not an address.                   *)
LEMMA AnsweredElsewhere ==
    ASSUME AddrInv, TypeOK', UNCHANGED <<addr, seen>>, NoneStaged', NEW body, NEW approve \in BOOLEAN,
           sendResponse(body, approve), body.kind # "address"
    PROVE  AddrInv'
<1> DEFINE answer == [body |-> IF approve THEN body ELSE NoBody,
                      sw |-> IF approve THEN SW_OK ELSE SW_REJECTED]
<1>1. replies' = Append(replies, answer) /\ replies \in Seq(Replies) /\ ux' = ui_idle
    BY DEF sendResponse, AddrInv, TypeOK
<1>2. answer.body.kind # "address"
    BY DEF NoBody
<1> HIDE DEF answer
<1>3. \A i \in DOMAIN replies' :
          replies'[i].body.kind = "address" => i \in DOMAIN replies /\ replies'[i] = replies[i]
    BY <1>1, <1>2
<1>4. ux'.at \notin AfterPath
    BY <1>1, OtherSteps DEF ui_idle, Screen
<1> QED BY <1>3, <1>4, ElsewhereKept

(* The approval of an address that was shown.                              *)
LEMMA AddressApproved ==
    ASSUME AddrInv, TypeOK', NoneStaged', Approve
    PROVE  AddrInv'
<1> DEFINE answer == [body |-> AddressBody(address), sw |-> SW_OK]
<1>1. replies' = Append(replies, answer) /\ replies \in Seq(Replies) /\ ux' = ui_idle
    BY DEF Approve, sendResponse, AddrInv, TypeOK
<1>2. answer.body.address = address
    BY DEF AddressBody
<1>3. UNCHANGED <<account, generated, address, seen>>
    BY DEF Approve, addr
<1>4. /\ address = generate_address(KeyOf(account))
      /\ <<"address", address>> \in seen
      /\ <<"path", ValueText[account]>> \in seen
    BY DEF Approve, AddrInv, PathDrawn, ResultDrawn, Derived, AfterPath, ResultSteps
<1> HIDE DEF answer
<1>5. AddressAsShown'
  <2> SUFFICES ASSUME NEW i \in DOMAIN replies', replies'[i].body.kind = "address"
               PROVE  /\ replies'[i].body.address = generate_address(KeyOf(account))
                      /\ <<"address", replies'[i].body.address>> \in seen
                      /\ <<"path", ValueText[account]>> \in seen
      BY <1>3 DEF AddressAsShown
  <2>1. CASE i \in DOMAIN replies
    <3>1. replies'[i] = replies[i]
        BY <1>1, <2>1
    <3> QED BY <2>1, <3>1 DEF AddrInv, AddressAsShown
  <2>2. CASE i = Len(replies) + 1
      BY <1>1, <1>2, <1>4, <2>2
  <2>3. i \in DOMAIN replies \/ i = Len(replies) + 1
      BY <1>1
  <2> QED BY <2>1, <2>2, <2>3
<1>6. PathDrawn' /\ ResultDrawn'
    BY <1>1, NotAfterPath, OtherSteps DEF ui_idle
<1>7. Derived'
    BY <1>3 DEF AddrInv, Derived
<1> QED BY <1>5, <1>6, <1>7 DEF AddrInv

(* Moving through the steps of the address request.                        *)
LEMMA AddressMoves ==
    ASSUME ~ CryptoMayFail, AddrInv, TypeOK', NoneStaged', NEW s \in ux.flow, EnterStep(s),
           UNCHANGED sign, Follows(ux.flow, ux.at, s) \/ Follows(ux.flow, s, ux.at)
    PROVE  AddrInv'
<1>1. ScreenOK
    BY DEF AddrInv, TypeOK
<1>2. CASE s = "address"
  <2>1. ux.at \in AfterPath
      BY <1>1, <1>2, AfterPathMoves DEF AfterPath, ResultSteps
  <2> QED BY <1>2, <2>1, AddressShown DEF EnterStep
<1>3. CASE s # "address"
  <2>1. /\ ux'.at = s /\ seen' = seen \union Drawn(s)
        /\ UNCHANGED <<replies, account, generated, address>>
      BY <1>3 DEF EnterStep, Draw, Screen, io, addr
  <2>2. PathDrawn'
    <3>1. CASE s = "path"
        BY <2>1, <3>1 DEF Drawn, PathDrawn, TextPages
    <3>2. CASE s # "path"
        BY <1>1, <2>1, <3>2, AfterPathMoves DEF AddrInv, PathDrawn
    <3> QED BY <3>1, <3>2
  <2>3. ResultDrawn'
      BY <1>1, <1>3, <2>1, AfterPathMoves DEF AddrInv, ResultDrawn
  <2>4. Derived'
      BY <2>1 DEF AddrInv, Derived
  <2>5. AddressAsShown'
      BY <2>1, NoAddressSent DEF AddrInv
  <2> QED BY <2>2, <2>3, <2>4, <2>5 DEF AddrInv
<1> QED BY <1>2, <1>3

LEMMA AddrInit == Init => AddrInv
<1> SUFFICES ASSUME Init PROVE AddrInv
    OBVIOUS
<1>1. ux.at \notin AfterPath
    BY OtherSteps DEF Init, ui_idle, Screen
<1>2. PathDrawn /\ ResultDrawn
    BY <1>1 DEF PathDrawn, ResultDrawn, AfterPath
<1> QED BY <1>2, InitType DEF Init, AddrInv, Derived, NoneStaged, AddressAsShown

LEMMA AddrNext == ~ CryptoMayFail /\ AddrInv /\ [Next]_vars => AddrInv'
<1> SUFFICES ASSUME ~ CryptoMayFail, AddrInv, [Next]_vars PROVE AddrInv'
    OBVIOUS
<1>a. TypeOK'
    BY NextType DEF AddrInv
<1>b. NoneStaged'
    BY StagedBy DEF AddrInv, NoneStaged, NoBody, VersionBody
<1>c. replies \in Seq(Replies) /\ ScreenOK
    BY DEF AddrInv, TypeOK
<1>1. CASE Exchange
  <2>1. \A i \in DOMAIN replies' :
            replies'[i].body.kind = "address" => i \in DOMAIN replies /\ replies'[i] = replies[i]
    <3>1. CASE UNCHANGED replies
        BY <3>1
    <3>2. CASE \E answer \in staged : replies' = Append(replies, answer)
        BY <1>c, <3>2 DEF AddrInv, NoneStaged
    <3> QED BY <1>1, <3>1, <3>2 DEF Exchange
  <2> QED BY <1>1, <1>a, <1>b, <2>1, ElsewhereKept DEF Exchange
<1>2. CASE ExchangeThrows \/ Quit
    BY <1>2, <1>a, <1>b, ElsewhereKept DEF ExchangeThrows, Quit
<1>3. ASSUME NEW apdu, Receive(apdu), UNCHANGED <<addr, seen>>, ux' = ux \/ ux' = ui_idle
      PROVE  AddrInv'
  <2>1. ux' = ux \/ ux'.at \notin AfterPath
      BY <1>3, OtherSteps DEF ui_idle, Screen
  <2>2. replies' = <<>>
      BY <1>3 DEF Receive
  <2> QED BY <1>3, <1>a, <1>b, <2>1, <2>2, ElsewhereKept
<1>4. ASSUME NEW apdu, Receive(apdu), Derived', NEW f, NEW s \in {"addr_topic", "topic", "testing"},
             ux' = Screen(f, s)
      PROVE  AddrInv'
  <2>1. PathDrawn' /\ ResultDrawn'
      BY <1>4, NotAfterPath, OtherSteps
  <2> QED BY <1>4, <1>a, <1>b, <2>1, NothingSentYet DEF AddrInv
<1>5. CASE RefuseApdu \/ GetConf
    BY <1>3, <1>5 DEF RefuseApdu, GetConf, Command
<1>6. CASE handle_get_address
  <2>1. PICK apdu \in Apdus :
          /\ Receive(apdu)
          /\ \/ RefuseParameter /\ UNCHANGED addr
             \/ /\ generated' = FALSE
                /\ AnswerLater(Screen(ux_get_address_flow, "addr_topic"))
      BY <1>6 DEF handle_get_address, Command
  <2>2. CASE RefuseParameter /\ UNCHANGED addr
      BY <1>3, <2>1, <2>2 DEF RefuseParameter
  <2>3. CASE generated' = FALSE /\ AnswerLater(Screen(ux_get_address_flow, "addr_topic"))
      BY <1>4, <2>1, <2>3 DEF AnswerLater, Derived
  <2> QED BY <2>1, <2>2, <2>3
<1>7. CASE handle_sign_tx \/ handle_test_crypto
  <2>1. PICK apdu \in Apdus :
          /\ Receive(apdu)
          /\ \/ RefuseParameter
             \/ \E f : \E s \in {"topic", "testing"} : AnswerLater(Screen(f, s))
      BY <1>7 DEF handle_sign_tx, handle_test_crypto, Command
  <2>2. UNCHANGED addr /\ Derived'
      BY <1>7 DEF handle_sign_tx, handle_test_crypto, AddrInv, Derived, addr
  <2>3. CASE RefuseParameter
      BY <1>3, <2>1, <2>2, <2>3 DEF RefuseParameter
  <2>4. CASE \E f : \E s \in {"topic", "testing"} : AnswerLater(Screen(f, s))
      BY <1>4, <2>1, <2>2, <2>4 DEF AnswerLater
  <2> QED BY <2>1, <2>3, <2>4
<1>8. CASE FlowNext \/ FlowPrev
  <2>1. PICK s \in ux.flow :
          EnterStep(s) /\ (Follows(ux.flow, ux.at, s) \/ Follows(ux.flow, s, ux.at))
      BY <1>8 DEF FlowNext, FlowPrev
  <2> QED BY <1>8, <1>a, <1>b, <2>1, AddressMoves DEF FlowNext, FlowPrev
<1>9. CASE Approve
    BY <1>9, <1>a, <1>b, AddressApproved
<1>10. CASE Reject
    BY <1>10, <1>a, <1>b, AnsweredElsewhere DEF Reject, NoBody
<1>11. CASE Proceed
  <2>1. CASE ux.at = "generate" /\ ux' = Screen(ux_get_address_comfort_flow, "processing")
    <3>1. ux.at \in AfterPath /\ ux'.at \notin ResultSteps
        BY <2>1 DEF AfterPath, ResultSteps, Screen
    <3>2. UNCHANGED <<io, addr, seen>>
        BY <1>11 DEF Proceed
    <3>3. PathDrawn' /\ ResultDrawn' /\ Derived'
        BY <3>1, <3>2 DEF AddrInv, PathDrawn, ResultDrawn, Derived, addr
    <3>4. AddressAsShown'
        BY <3>2, NoAddressSent DEF AddrInv, addr, io
    <3> QED BY <1>a, <1>b, <3>3, <3>4 DEF AddrInv
  <2>2. CASE ux' = Screen(ux_sign_tx_comfort_flow, "signing")
    <3>1. ux'.at \notin AfterPath
        BY <2>2, OtherSteps DEF Screen
    <3> QED BY <1>11, <1>a, <1>b, <3>1, ElsewhereKept DEF Proceed, io
  <2> QED BY <1>11, <2>1, <2>2 DEF Proceed
<1>12. CASE Elapse
  <2>1. CASE ux.at = "processing" /\ ShowAddress /\ UNCHANGED sign
      BY <2>1, AddressShown DEF AfterPath
  <2>2. ASSUME NEW f, NEW s \in {"signed", "tested"}, NEW e, CallbackThrows(Screen(f, s), e),
               UNCHANGED <<addr, seen>>
        PROVE  AddrInv'
    <3>1. ux'.at \notin AfterPath /\ UNCHANGED replies
        BY <2>2, OtherSteps DEF CallbackThrows, Screen
    <3> QED BY <1>a, <1>b, <2>2, <3>1, ElsewhereKept
  <2>3. CASE (sign_transaction \/ test_crypto) /\ UNCHANGED <<addr, seen>>
    <3>1. ASSUME NEW body, body.kind # "address", sendResponse(body, TRUE) PROVE AddrInv'
        BY <1>a, <1>b, <2>3, <3>1, AnsweredElsewhere
    <3>2. SuccessBody.kind # "address" /\ \A key, msg, net : SignatureBody(key, msg, net).kind # "address"
        BY DEF SuccessBody, SignatureBody
    <3> QED BY <2>2, <2>3, <3>1, <3>2 DEF sign_transaction, test_crypto
  <2> QED BY <1>12, <2>1, <2>3 DEF Elapse
<1>13. CASE IoReset \/ Launch
  <2>1. ux' = ui_idle /\ replies' = <<>>
      BY <1>13 DEF IoReset, Launch, Restart
  <2>2. PathDrawn' /\ ResultDrawn'
      BY <2>1, NotAfterPath, OtherSteps DEF ui_idle
  <2>3. Derived'
      BY <1>13 DEF IoReset, Launch, AddrInv, Derived, addr
  <2> QED BY <1>a, <1>b, <2>1, <2>2, <2>3 DEF AddrInv, AddressAsShown
<1>14. CASE UNCHANGED vars
    BY <1>14, <1>a, <1>b, ElsewhereKept DEF vars, io
<1> QED BY <1>1, <1>2, <1>5, <1>6, <1>7, <1>8, <1>9, <1>10, <1>11, <1>12, <1>13, <1>14 DEF Next

(* An address that leaves the device is that of the account asked for and  *)
(* was on screen, after its path, since the request arrived: for every     *)
(* host, patient or not, on a device whose derivation works.               *)
THEOREM AddressIsShown == ASSUME ~ CryptoMayFail PROVE Spec => []AddressAsShown
<1>1. Init => AddrInv
    BY AddrInit
<1>2. AddrInv /\ [Next]_vars => AddrInv'
    BY AddrNext
<1>3. AddrInv => AddressAsShown
    BY DEF AddrInv
<1> QED BY <1>1, <1>2, <1>3, PTL DEF Spec

----------------------------------------------------------------------------
(* A host that waits for its answers.                                      *)

(* The screens of a command, and the request they were put up for.         *)
AddrSteps == {"addr_topic"} \union AfterPath

ScreenFits == \A apdu \in request :
    /\ ux.at \in AddrSteps => apdu.ins = INS_GET_ADDR /\ account = apdu.data
    /\ SignScreen => /\ apdu.ins = INS_SIGN_TX
                     /\ \E r \in Residues : txState = WriteTx(ZeroTx, apdu.data, Accepted, r)
    /\ ux.at = "testing" => apdu.ins = INS_TEST_CRYPTO

(* An answer is owed, and nothing has been sent; it will come from the     *)
(* screen or from the buffer, never from both.                             *)
Pending    == outstanding <=> (request # {} /\ replies = <<>>)
InBuffer   == staged # {} => outstanding /\ pc = "exchange" /\ ~ asynch
ScreenOwed == ux.at \in AnsweringSteps => outstanding /\ asynch

Fits(answer) == \A apdu \in request : answer.sw = SW_OK => AnswersTo(apdu, answer.body)
StagedFits  == \A answer \in staged : Fits(answer)
RepliesFit  == Len(replies) <= 1 /\ \A i \in DOMAIN replies : Fits(replies[i])

HostInv == Pending /\ InBuffer /\ ScreenOwed /\ ScreenFits /\ StagedFits /\ RepliesFit
PInv    == AddrInv /\ HostInv

(* Every screen of a command answers, and the steps of a flow are all of   *)
(* one command.                                                            *)
LEMMA CommandSteps ==
    /\ AddrSteps \union ReviewSteps \union {"signing", "testing"} \subseteq AnsweringSteps
    /\ "ready" \notin AnsweringSteps /\ "quit" \notin AnsweringSteps
    /\ "signed" \notin AnsweringSteps /\ "tested" \notin AnsweringSteps
    /\ (AddrSteps \union {"testing"}) \intersect (ReviewSteps \union {"signing"}) = {}
    /\ "testing" \notin AddrSteps
BY DEF AddrSteps, AfterPath, ResultSteps, ReviewSteps, TextPages, AnsweringSteps, Steps, ux_idle_flow,
   ux_get_address_flow, ux_get_address_comfort_flow, ux_get_address_result_flow,
   ux_sign_tx_comfort_flow, ux_sign_tx_done_flow, ux_test_crypto_testing_flow, ux_test_crypto_done_flow

LEMMA OneCommand ==
    ASSUME ScreenOK, NEW s \in ux.flow
    PROVE  /\ s \in AnsweringSteps => ux.at \in AnsweringSteps
           /\ s \in AddrSteps => ux.at \in AddrSteps
           /\ s \in ReviewSteps => ux.at \in ReviewSteps
           /\ s = "signing" => ux.at = "signing"
           /\ s = "testing" => ux.at = "testing"
<1>1. CASE ux.flow \subseteq ReviewSteps
  <2>1. "signing" \notin ReviewSteps
      BY DEF ReviewSteps, TextPages
  <2>2. s \in ReviewSteps /\ ux.at \in ReviewSteps
      BY <1>1 DEF ScreenOK
  <2> QED BY <2>1, <2>2, CommandSteps
<1>2. CASE ux.flow \in Flows
    BY <1>2 DEF ScreenOK, Flows, AddrSteps, AfterPath, ResultSteps, ReviewSteps, TextPages,
       AnsweringSteps, Steps, ux_idle_flow, ux_get_address_flow, ux_get_address_comfort_flow,
       ux_get_address_result_flow, ux_sign_tx_comfort_flow, ux_sign_tx_done_flow,
       ux_test_crypto_testing_flow, ux_test_crypto_done_flow
<1> QED BY <1>1, <1>2 DEF ScreenOK

(* A screen that answers nothing fits any request.                         *)
LEMMA IdleFits ==
    ASSUME ux'.at \notin AnsweringSteps
    PROVE  ScreenFits' /\ ScreenOwed'
BY CommandSteps DEF ScreenFits, ScreenOwed, SignScreen, Reviewing

LEMMA ErrorWords ==
    /\ SW_OK # CatchSw(INVALID_STATE) /\ SW_OK # CatchSw(INVALID_PARAMETER) /\ SW_OK # SW_INVALID
    /\ SW_OK # SW_REJECTED
    /\ \A apdu : Refusal(apdu) # SW_OK
BY DEF SW_OK, SW_INVALID, SW_REJECTED, CatchSw, INVALID_STATE, INVALID_PARAMETER, Refusal,
   SW_NO_APDU, SW_BAD_CLA, SW_BAD_INS

(* A request that is answered at once.                                     *)
LEMMA AnsweredAtOnce ==
    ASSUME PatientHost, HostInv, NEW apdu, Receive(apdu), NEW body, NEW sw, Answer(body, sw),
           sw = SW_OK => AnswersTo(apdu, body), ux' = ux \/ ux' = ui_idle
    PROVE  HostInv'
<1>1. ux'.at \notin AnsweringSteps
    BY CommandSteps DEF HostInv, ScreenOwed, Receive, ui_idle, Screen
<1>2. ScreenFits' /\ ScreenOwed'
    BY <1>1, IdleFits
<1>3. Pending' /\ InBuffer' /\ RepliesFit'
    BY DEF Receive, Answer, Staged, Pending, InBuffer, RepliesFit
<1>4. StagedFits'
    BY DEF Receive, Answer, Staged, StagedFits, Fits
<1> QED BY <1>2, <1>3, <1>4 DEF HostInv

(* A request that puts its own screen up.                                  *)
LEMMA AnsweredLater ==
    ASSUME NEW apdu, Receive(apdu), NEW screen, AnswerLater(screen), ScreenFits'
    PROVE  HostInv'
BY DEF Receive, AnswerLater, Pending, InBuffer, ScreenOwed, StagedFits, RepliesFit, HostInv

(* A screen that sends the answer.                                         *)
LEMMA AnsweredNow ==
    ASSUME PInv, ux.at \in AnsweringSteps, NEW body, NEW approve \in BOOLEAN,
           sendResponse(body, approve),
           approve => \A apdu \in request : AnswersTo(apdu, body)
    PROVE  HostInv'
<1> DEFINE answer == [body |-> IF approve THEN body ELSE NoBody,
                      sw |-> IF approve THEN SW_OK ELSE SW_REJECTED]
<1>1. outstanding /\ asynch /\ staged = {} /\ request # {} /\ replies = <<>>
    BY DEF PInv, HostInv, Pending, InBuffer, ScreenOwed
<1>2. replies' = Append(replies, answer) /\ ux' = ui_idle /\ ~ outstanding'
      /\ UNCHANGED <<pc, asynch, staged, request>>
    BY DEF sendResponse
<1>3. Fits(answer)
    BY ErrorWords DEF Fits
<1> HIDE DEF answer
<1>4. ScreenFits' /\ ScreenOwed'
    BY <1>2, IdleFits, CommandSteps DEF ui_idle, Screen
<1>5. replies' = <<answer>>
    BY <1>1, <1>2
<1>6. Pending' /\ InBuffer' /\ StagedFits' /\ RepliesFit'
    BY <1>1, <1>2, <1>3, <1>5 DEF Pending, InBuffer, StagedFits, RepliesFit, Fits
<1> QED BY <1>4, <1>6 DEF HostInv

(* A callback, or the exchange itself, that throws.                        *)
LEMMA ErrorOwed ==
    ASSUME HostInv, outstanding, NEW e \in {INVALID_PARAMETER, INVALID_STATE}, Throw(e),
           UNCHANGED <<outstanding, request, replies>>, ux'.at \notin AnsweringSteps
    PROVE  HostInv'
<1>1. ScreenFits' /\ ScreenOwed'
    BY IdleFits
<1>2. Pending' /\ InBuffer' /\ RepliesFit'
    BY DEF Throw, HostInv, Pending, InBuffer, RepliesFit, Fits
<1>3. StagedFits'
    BY ErrorWords DEF Throw, Staged, StagedFits, Fits
<1> QED BY <1>1, <1>2, <1>3 DEF HostInv

(* A screen that follows another of its command.                           *)
LEMMA SameCommand ==
    ASSUME HostInv, UNCHANGED <<io, sign, account>>,
           ux'.at \in AnsweringSteps => ux.at \in AnsweringSteps,
           ux'.at \in AddrSteps => ux.at \in AddrSteps,
           ux'.at \in ReviewSteps \union {"signing"} => ux.at \in ReviewSteps \union {"signing"},
           ux'.at = "testing" => ux.at = "testing"
    PROVE  HostInv'
<1>1. ScreenFits'
    BY DEF HostInv, ScreenFits, SignScreen, Reviewing, io, sign
<1>2. Pending' /\ InBuffer' /\ ScreenOwed' /\ StagedFits' /\ RepliesFit'
    BY DEF HostInv, Pending, InBuffer, ScreenOwed, StagedFits, RepliesFit, Fits, io
<1> QED BY <1>1, <1>2 DEF HostInv

----------------------------------------------------------------------------
LEMMA HostInit == Init => HostInv
<1> SUFFICES ASSUME Init PROVE HostInv
    OBVIOUS
<1>1. ux.at \notin AnsweringSteps
    BY CommandSteps DEF Init, ui_idle, Screen
<1> QED BY <1>1 DEF Init, HostInv, Pending, InBuffer, ScreenOwed, ScreenFits, StagedFits, RepliesFit

(* sign_transaction and test_crypto, at the end of their comfort steps.    *)
LEMMA SignDone ==
    ASSUME PInv, ux.at = "signing", sign_transaction
    PROVE  HostInv'
<1> DEFINE body == SignatureBody(KeyOf(txState.account), transaction_to_roinput(txState),
                                 txState.network_id)
<1>1. ux.at \in AnsweringSteps /\ outstanding
    BY CommandSteps DEF PInv, HostInv, ScreenOwed
<1>2. CASE sendResponse(body, TRUE)
  <2>1. \A apdu \in request : AnswersTo(apdu, body)
      BY DEF PInv, HostInv, ScreenFits, SignScreen, AnswersTo
  <2> HIDE DEF body
  <2> QED BY <1>1, <1>2, <2>1, AnsweredNow
<1>3. CASE CallbackThrows(Screen(ux_sign_tx_done_flow, "signed"), INVALID_PARAMETER)
    BY <1>1, <1>3, ErrorOwed, CommandSteps DEF PInv, CallbackThrows, Screen
<1> QED BY <1>2, <1>3 DEF sign_transaction

LEMMA TestDone ==
    ASSUME ~ CryptoMayFail, PInv, ux.at = "testing", test_crypto
    PROVE  HostInv'
<1>1. ux.at \in AnsweringSteps
    BY CommandSteps
<1>2. \A apdu \in request : AnswersTo(apdu, SuccessBody)
    BY DEF PInv, HostInv, ScreenFits, AnswersTo
<1> QED BY <1>1, <1>2, AnsweredNow DEF test_crypto

LEMMA HostNext == PatientHost /\ ~ CryptoMayFail /\ PInv /\ [Next]_vars => HostInv'
<1> SUFFICES ASSUME PatientHost, ~ CryptoMayFail, PInv, [Next]_vars PROVE HostInv'
    OBVIOUS
<1>a. HostInv /\ ScreenOK
    BY DEF PInv, AddrInv, TypeOK
<1>1. CASE Exchange
  <2>1. ScreenFits'
      BY <1>1, <1>a DEF Exchange, HostInv, ScreenFits, SignScreen, Reviewing, sign, addr
  <2>2. InBuffer' /\ StagedFits'
      BY <1>1 DEF Exchange, InBuffer, StagedFits
  <2>3. CASE asynch \/ staged = {}
      BY <1>1, <1>a, <2>1, <2>2, <2>3 DEF Exchange, HostInv, Pending, ScreenOwed, RepliesFit, Fits
  <2>4. CASE ~ (asynch \/ staged = {})
    <3>1. PICK answer \in staged : replies' = Append(replies, answer)
        BY <1>1, <2>4 DEF Exchange
    <3>2. outstanding /\ replies = <<>> /\ ~ outstanding' /\ UNCHANGED <<request, ux>>
        BY <1>1, <1>a, <2>4 DEF Exchange, HostInv, InBuffer, Pending
    <3>3. replies' = <<answer>>
        BY <3>1, <3>2
    <3>4. Pending' /\ RepliesFit'
        BY <1>a, <3>2, <3>3 DEF HostInv, StagedFits, Pending, RepliesFit, Fits
    <3>5. ScreenOwed'
        BY <1>a, <2>4, <3>2 DEF HostInv, ScreenOwed
    <3> QED BY <2>1, <2>2, <3>4, <3>5 DEF HostInv
  <2> QED BY <2>3, <2>4
<1>2. CASE ExchangeThrows
  <2>1. outstanding /\ ux'.at \notin AnsweringSteps
      BY <1>2, <1>a DEF ExchangeThrows, HostInv, InBuffer, ScreenOwed
  <2> QED BY <1>2, <1>a, <2>1, ErrorOwed DEF ExchangeThrows
<1>3. CASE RefuseApdu \/ GetConf
    BY <1>3, <1>a, AnsweredAtOnce, ErrorWords DEF RefuseApdu, GetConf, Command, AnswersTo
<1>4. ASSUME NEW apdu, Receive(apdu), RefuseParameter PROVE HostInv'
    BY <1>4, <1>a, AnsweredAtOnce, ErrorWords DEF RefuseParameter
<1>5. CASE handle_get_address
  <2>1. PICK apdu \in Apdus :
          /\ Receive(apdu) /\ apdu.ins = INS_GET_ADDR
          /\ \/ RefuseParameter
             \/ /\ account' = apdu.data
                /\ AnswerLater(Screen(ux_get_address_flow, "addr_topic"))
      BY <1>5 DEF handle_get_address, Command
  <2>2. CASE account' = apdu.data /\ AnswerLater(Screen(ux_get_address_flow, "addr_topic"))
    <3>1. request' = {apdu} /\ ux'.at = "addr_topic"
        BY <2>1, <2>2 DEF Receive, AnswerLater, Screen
    <3>2. ScreenFits'
        BY <2>1, <2>2, <3>1, CommandSteps DEF ScreenFits, SignScreen, Reviewing, AddrSteps
    <3> QED BY <2>1, <2>2, <3>2, AnsweredLater
  <2> QED BY <1>4, <2>1, <2>2
<1>6. CASE handle_sign_tx
  <2>1. PICK apdu \in Apdus, r \in Residues :
          /\ Receive(apdu) /\ apdu.ins = INS_SIGN_TX
          /\ \/ RefuseParameter
             \/ /\ txState' = WriteTx(txState, apdu.data, Accepted, r)
                /\ AnswerLater(Screen(ux_sign_tx_flow(txState', uiState'), "topic"))
      BY <1>6 DEF handle_sign_tx, Command
  <2>2. CASE /\ txState' = WriteTx(txState, apdu.data, Accepted, r)
             /\ AnswerLater(Screen(ux_sign_tx_flow(txState', uiState'), "topic"))
    <3>1. request' = {apdu} /\ ux'.at = "topic" /\ "topic" \in ReviewSteps
        BY <2>1, <2>2 DEF Receive, AnswerLater, Screen, ReviewSteps
    <3>2. txState' = WriteTx(ZeroTx, apdu.data, Accepted, r)
        BY <2>2 DEF WriteTx, Accepted
    <3>3. ScreenFits'
        BY <2>1, <3>1, <3>2, CommandSteps DEF ScreenFits
    <3> QED BY <2>1, <2>2, <3>3, AnsweredLater
  <2> QED BY <1>4, <2>1, <2>2
<1>7. CASE handle_test_crypto
  <2>1. PICK apdu \in Apdus :
          /\ Receive(apdu) /\ apdu.ins = INS_TEST_CRYPTO
          /\ RefuseParameter \/ AnswerLater(Screen(ux_test_crypto_testing_flow, "testing"))
      BY <1>7 DEF handle_test_crypto, Command
  <2>2. CASE AnswerLater(Screen(ux_test_crypto_testing_flow, "testing"))
    <3>1. request' = {apdu} /\ ux'.at = "testing"
        BY <2>1, <2>2 DEF Receive, AnswerLater, Screen
    <3>2. ScreenFits'
        BY <2>1, <3>1, CommandSteps DEF ScreenFits, SignScreen, Reviewing
    <3> QED BY <2>1, <2>2, <3>2, AnsweredLater
  <2> QED BY <1>4, <2>1, <2>2
<1>8. ASSUME ShowAddress, UNCHANGED sign, ux.at \in AddrSteps PROVE HostInv'
  <2>1. UNCHANGED <<io, account>> /\ ux'.at = "address"
      BY <1>8 DEF ShowAddress, Screen
  <2>2. "address" \in AddrSteps
      BY DEF AddrSteps, AfterPath, ResultSteps
  <2> QED BY <1>8, <1>a, <2>1, <2>2, CommandSteps, SameCommand
<1>9. CASE FlowNext \/ FlowPrev
  <2>1. PICK s \in ux.flow : EnterStep(s) /\ UNCHANGED sign
      BY <1>9 DEF FlowNext, FlowPrev
  <2>2. CASE s = "address"
    <3>1. ux.at \in AddrSteps
        BY <1>a, <2>2, OneCommand DEF AddrSteps, AfterPath, ResultSteps
    <3> QED BY <1>8, <2>1, <2>2, <3>1 DEF EnterStep
  <2>3. CASE s # "address"
    <3>1. UNCHANGED <<io, account>> /\ ux'.at = s
        BY <2>1, <2>3 DEF EnterStep, Draw, Screen, addr
    <3> QED BY <1>a, <2>1, <3>1, OneCommand, SameCommand
  <2> QED BY <2>2, <2>3
<1>10. CASE Approve
  <2>1. ux.at \in AddrSteps /\ AddressBody(address) = AddressBody(generate_address(KeyOf(account)))
      BY <1>10 DEF Approve, AddrSteps, AfterPath, ResultSteps, PInv, AddrInv, ResultDrawn, Derived
  <2>2. \A apdu \in request : AnswersTo(apdu, AddressBody(address))
      BY <1>a, <2>1 DEF HostInv, ScreenFits, AnswersTo
  <2> QED BY <1>10, <2>1, <2>2, CommandSteps, AnsweredNow DEF Approve
<1>11. CASE Reject
  <2>1. ux.at \in AddrSteps \union ReviewSteps
      BY <1>11 DEF Reject, AddrSteps, AfterPath, ResultSteps, ReviewSteps
  <2> QED BY <1>11, <2>1, CommandSteps, AnsweredNow DEF Reject
<1>12. CASE Proceed
  <2>1. UNCHANGED <<io, sign, account>>
      BY <1>12 DEF Proceed, addr
  <2>2. CASE ux.at = "generate" /\ ux' = Screen(ux_get_address_comfort_flow, "processing")
    <3>1. {ux.at, ux'.at} \subseteq AddrSteps
        BY <2>2 DEF Screen, AddrSteps, AfterPath
    <3> QED BY <1>a, <2>1, <3>1, CommandSteps, SameCommand
  <2>3. CASE ux.at = "approve" /\ ux' = Screen(ux_sign_tx_comfort_flow, "signing")
    <3>1. ux.at \in ReviewSteps /\ ux'.at = "signing"
        BY <2>3 DEF Screen, ReviewSteps
    <3> QED BY <1>a, <2>1, <3>1, CommandSteps, SameCommand
  <2> QED BY <1>12, <2>2, <2>3 DEF Proceed
<1>13. CASE Elapse
  <2>1. CASE ux.at = "processing" /\ ShowAddress
      BY <1>8, <1>13, <2>1 DEF Elapse, AddrSteps, AfterPath
  <2>2. CASE ux.at = "signing" /\ sign_transaction
      BY <2>2, SignDone
  <2>3. CASE ux.at = "testing" /\ test_crypto
      BY <2>3, TestDone
  <2> QED BY <1>13, <2>1, <2>2, <2>3 DEF Elapse
<1>14. CASE IoReset \/ Launch
  <2>1. Restart
      BY <1>14 DEF IoReset, Launch
  <2>2. ux'.at \notin AnsweringSteps
      BY <2>1, CommandSteps DEF Restart, ui_idle, Screen
  <2>3. ScreenFits' /\ ScreenOwed'
      BY <2>2, IdleFits
  <2>4. Pending' /\ InBuffer' /\ StagedFits' /\ RepliesFit'
      BY <2>1 DEF Restart, Pending, InBuffer, StagedFits, RepliesFit
  <2> QED BY <2>3, <2>4 DEF HostInv
<1>15. CASE Quit
    BY <1>15, <1>a, CommandSteps DEF Quit, HostInv, Pending, InBuffer, ScreenOwed, ScreenFits,
       SignScreen, Reviewing, StagedFits, RepliesFit, Fits, sign, addr
<1>16. CASE UNCHANGED vars
    BY <1>16, <1>a, SameCommand DEF vars, addr
<1> QED BY <1>1, <1>2, <1>3, <1>5, <1>6, <1>7, <1>9, <1>10, <1>11, <1>12, <1>13, <1>14, <1>15,
        <1>16 DEF Next

(* A host that waits gets one answer to each request, and one that answers *)
(* it: the version, the address of the account it named, a signature over  *)
(* the payload it sent.  Derivation works; the exchange may throw.         *)
THEOREM OneAnswer == ASSUME ~ CryptoMayFail PROVE Spec => []OneAnswerEach
<1>1. CASE PatientHost
  <2>1. Init => PInv
      BY AddrInit, HostInit DEF PInv
  <2>2. PInv /\ [Next]_vars => PInv'
      BY <1>1, AddrNext, HostNext DEF PInv
  <2>3. PInv => OneAnswerEach
    <3> SUFFICES ASSUME PInv PROVE OneAnswerEach
        OBVIOUS
    <3>1. outstanding = (request # {} /\ replies = <<>>)
        BY Zenon DEF PInv, HostInv, Pending, AddrInv, TypeOK
    <3>2. Len(replies) <= 1 /\ \A i \in DOMAIN replies, apdu \in request :
              replies[i].sw = SW_OK => AnswersTo(apdu, replies[i].body)
        BY DEF PInv, HostInv, RepliesFit, Fits
    <3> QED BY <3>1, <3>2, Zenon DEF OneAnswerEach
  <2> QED BY <2>1, <2>2, <2>3, PTL DEF Spec
<1>2. CASE ~ PatientHost
  <2>1. OneAnswerEach
      BY <1>2 DEF OneAnswerEach
  <2> QED BY <2>1, PTL
<1> QED BY <1>1, <1>2

(* Once the answer is out, no screen is left that could send another.      *)
THEOREM NoScreenLeft == ASSUME ~ CryptoMayFail PROVE Spec => []NoScreenWithoutRequest
<1>1. CASE PatientHost
  <2>1. Init => PInv
      BY AddrInit, HostInit DEF PInv
  <2>2. PInv /\ [Next]_vars => PInv'
      BY <1>1, AddrNext, HostNext DEF PInv
  <2>3. PInv => NoScreenWithoutRequest
      BY DEF PInv, HostInv, ScreenOwed, NoScreenWithoutRequest
  <2> QED BY <2>1, <2>2, <2>3, PTL DEF Spec
<1>2. CASE ~ PatientHost
  <2>1. NoScreenWithoutRequest
      BY <1>2 DEF NoScreenWithoutRequest
  <2> QED BY <2>1, PTL
<1> QED BY <1>1, <1>2

----------------------------------------------------------------------------
(* The refinement, step by step.                                           *)

Transactions == [key : Keys, msg : Messages, network_id : Byte]

(* A transaction is never nothing.                                         *)
LEMMA CoveredIsSomething ==
    ASSUME NEW key, NEW msg, NEW net
    PROVE  Covered(key, msg, net) # NothingCovered
<1>1. DOMAIN Covered(key, msg, net) = {"key", "msg", "network_id"}
    BY DEF Covered
<1>2. DOMAIN NothingCovered = {"key"}
    BY DEF NothingCovered
<1>3. "msg" \notin {"key"}
    OBVIOUS
<1> QED BY <1>1, <1>2, <1>3

LEMMA OfferOnScreen ==
    /\ (offer # NothingCovered) <=> SignScreen
    /\ consent => SignScreen /\ ~ Reviewing
<1>1. "signing" \notin ReviewSteps
    BY DEF ReviewSteps, TextPages
<1> QED BY <1>1, CoveredIsSomething DEF offer, consent, SignScreen, Reviewing

LEMMA TxCovered ==
    ASSUME NEW tx \in Tx
    PROVE  Covered(tx.source_pk, transaction_to_roinput(tx), tx.network_id) \in Transactions
<1>1. tx.source_pk \in Keys /\ tx.network_id \in Byte
    BY DEF Tx
<1>2. transaction_to_roinput(tx) \in Messages
    BY DEF Tx, Messages, transaction_to_roinput
<1> QED BY <1>1, <1>2 DEF Covered, Transactions

----------------------------------------------------------------------------
(* What the answers say of the last release.                               *)
LEMMA ReleasedNothing ==
    /\ NoneSigned <=> Signatures = {}
    /\ NoneSigned => released = NothingCovered
    /\ NoneSigned' <=> Signatures' = {}
    /\ NoneSigned' => released' = NothingCovered
BY DEF NoneSigned, Signatures, released

LEMMA ReleasedKept ==
    ASSUME \A i \in DOMAIN replies' : IsSignature(replies'[i]) =>
               i \in DOMAIN replies /\ replies'[i] = replies[i],
           \A i \in DOMAIN replies : i \in DOMAIN replies' /\ replies'[i] = replies[i]
    PROVE  released' = released
<1>1. Signatures' = Signatures
    BY DEF Signatures
<1>2. CASE Signatures = {}
    BY <1>1, <1>2 DEF released
<1>3. CASE Signatures # {}
  <2>1. (CHOOSE i \in Signatures : TRUE) \in Signatures
      BY <1>3
  <2>2. replies'[CHOOSE i \in Signatures : TRUE] = replies[CHOOSE i \in Signatures : TRUE]
      BY <2>1 DEF Signatures
  <2> QED BY <1>1, <1>3, <2>2 DEF released
<1> QED BY <1>2, <1>3

LEMMA ReleaseOne ==
    ASSUME NoneSigned, replies \in Seq(Replies), NEW answer, IsSignature(answer),
           replies' = Append(replies, answer)
    PROVE  released' = Covered(answer.body.key, answer.body.msg, answer.body.network_id)
<1>1. Signatures' = {Len(replies) + 1}
    BY DEF Signatures, NoneSigned
<1>2. (CHOOSE i \in Signatures' : TRUE) = Len(replies) + 1
    BY <1>1
<1>3. replies'[Len(replies) + 1] = answer
    OBVIOUS
<1> QED BY <1>1, <1>2, <1>3 DEF released

(* The ways a step can leave the mapping.                                  *)
LEMMA Same ==
    ASSUME offer' = offer, consent' = consent, released' = released
    PROVE  [Approval!Next]_Approval!approval
BY DEF Approval!approval

LEMMA Forgotten ==
    ASSUME offer' = offer, consent' = consent, released' = NothingCovered
    PROVE  [Approval!Next]_Approval!approval
BY DEF Approval!approval, Approval!Next, Approval!Forget

LEMMA Gone ==
    ASSUME ~ SignScreen', NoneSigned'
    PROVE  [Approval!Next]_Approval!approval
<1>1. offer' = NothingCovered /\ consent' = FALSE /\ released' = NothingCovered
    BY ReleasedNothing DEF offer, consent, SignScreen
<1>2. CASE offer = NothingCovered
  <2>1. consent = FALSE
      BY <1>2, OfferOnScreen DEF consent
  <2> QED BY <1>1, <1>2, <2>1, Forgotten
<1>3. CASE offer # NothingCovered
    BY <1>1, <1>3 DEF Approval!Next, Approval!Withdraw
<1> QED BY <1>2, <1>3

(* The idle screen, or any but a review and "Signing...".                  *)
LEMMA NoReview ==
    ASSUME NEW f, NEW s, s \notin ReviewSteps \union {"signing"}, ux' = Screen(f, s)
    PROVE  ~ SignScreen' /\ ~ consent'
BY DEF SignScreen, Reviewing, Screen, consent

LEMMA IdleNoReview == ux' = ui_idle => ~ SignScreen' /\ ~ consent'
<1>1. "ready" \notin ReviewSteps \union {"signing"}
    BY DEF ReviewSteps, TextPages
<1> QED BY <1>1, NoReview DEF ui_idle

(* Nothing is offered before or after, and no signature leaves.            *)
LEMMA Elsewhere ==
    ASSUME ~ SignScreen, ~ SignScreen', released' = released
    PROVE  [Approval!Next]_Approval!approval
BY Same DEF offer, consent, SignScreen

(* No signature is left behind a screen that is not the idle one.          *)
LEMMA ScreenUp == IInv /\ ux.flow # ux_idle_flow => NoneSigned
BY DEF IInv, ReviewInv, SignatureEndsReview, NoneSigned

(* A screen that changes within the command it belongs to.                 *)
LEMMA OtherScreenUp ==
    ASSUME IInv, ux.flow # ux_idle_flow, UNCHANGED replies, ~ SignScreen'
    PROVE  [Approval!Next]_Approval!approval
BY ScreenUp, Gone DEF NoneSigned

(* An answer that is not a signature, the idle screen behind it.           *)
LEMMA AnsweredUnsigned ==
    ASSUME IInv, ux.flow # ux_idle_flow, NEW body, body.kind # "signature", NEW approve \in BOOLEAN,
           sendResponse(body, approve)
    PROVE  [Approval!Next]_Approval!approval
<1> DEFINE answer == [body |-> IF approve THEN body ELSE NoBody,
                      sw |-> IF approve THEN SW_OK ELSE SW_REJECTED]
<1>1. replies' = Append(replies, answer) /\ replies \in Seq(Replies) /\ ux' = ui_idle
    BY DEF sendResponse, IInv, TypeOK
<1>2. ~ IsSignature(answer)
    BY DEF IsSignature, NoBody
<1> HIDE DEF answer
<1>3. NoneSigned'
  <2>1. NoneSigned
      BY ScreenUp
  <2>2. \A i \in DOMAIN replies' : (i \in DOMAIN replies /\ replies'[i] = replies[i]) \/ replies'[i] = answer
      BY <1>1
  <2> QED BY <1>2, <2>1, <2>2 DEF NoneSigned
<1> QED BY <1>1, <1>3, IdleNoReview, Gone

(* The signature of "Signing...": the release of what was consented to.    *)
LEMMA Signed ==
    ASSUME IInv, ux.at = "signing", sign_transaction
    PROVE  [Approval!Next]_Approval!approval
<1>1. SignScreen /\ consent /\ Matches(txState, uiState)
    BY DEF SignScreen, consent, IInv, ReviewInv, ReviewIsCurrent
<1>2. ux.flow # ux_idle_flow
    BY DEF IInv, TypeOK, ScreenOK, ux_idle_flow
<1>3. CASE /\ uiState.from = generate_address(KeyOf(txState.account))
           /\ sendResponse(SignatureBody(KeyOf(txState.account), transaction_to_roinput(txState),
                                         txState.network_id), TRUE)
  <2> DEFINE body == SignatureBody(KeyOf(txState.account), transaction_to_roinput(txState),
                                   txState.network_id)
             answer == [body |-> body, sw |-> SW_OK]
  <2>1. replies' = Append(replies, answer) /\ ux' = ui_idle
      BY <1>3 DEF sendResponse
  <2>2. IsSignature(answer)
      BY DEF IsSignature, SignatureBody
  <2>3. /\ body.key = KeyOf(txState.account) /\ body.msg = transaction_to_roinput(txState)
        /\ body.network_id = txState.network_id
      BY DEF SignatureBody
  <2>4. NoneSigned /\ replies \in Seq(Replies) /\ answer.body = body
      BY <1>2, ScreenUp DEF IInv, TypeOK
  <2> HIDE DEF body, answer
  <2>5. released' = Covered(body.key, body.msg, body.network_id)
      BY <2>1, <2>2, <2>4, ReleaseOne
  <2>6. txState.source_pk = KeyOf(txState.account)
      BY <1>1, <1>3 DEF Matches, generate_address
  <2>7. released' = offer
      BY <1>1, <2>3, <2>5, <2>6 DEF offer
  <2>8. offer' = NothingCovered /\ consent' = FALSE
      BY <2>1, IdleNoReview DEF offer, consent
  <2> QED BY <1>1, <2>7, <2>8 DEF Approval!Next, Approval!Release
<1>4. CASE CallbackThrows(Screen(ux_sign_tx_done_flow, "signed"), INVALID_PARAMETER)
  <2>1. "signed" \notin ReviewSteps \union {"signing"}
      BY DEF ReviewSteps, TextPages
  <2> QED BY <1>2, <1>4, <2>1, NoReview, OtherScreenUp DEF CallbackThrows
<1> QED BY <1>3, <1>4 DEF sign_transaction

(* An accepted request is an offer.                                        *)
LEMMA Accepts ==
    ASSUME TypeOK', NEW apdu, Receive(apdu),
           AnswerLater(Screen(ux_sign_tx_flow(txState', uiState'), "topic"))
    PROVE  [Approval!Next]_Approval!approval
<1>1. SignScreen' /\ ~ consent'
    BY DEF AnswerLater, Screen, SignScreen, Reviewing, ReviewSteps, consent
<1>2. offer' = Covered(txState'.source_pk, transaction_to_roinput(txState'), txState'.network_id)
    BY <1>1 DEF offer
<1>3. offer' \in Transactions
    BY <1>2, TxCovered DEF TypeOK
<1>4. released' = NothingCovered
    BY ReleasedNothing DEF Receive, NoneSigned
<1> QED BY <1>1, <1>3, <1>4 DEF Approval!Next, Approval!Offer, Transactions, consent

(* A page is turned.                                                       *)
LEMMA Turned ==
    ASSUME IInv, NEW s \in ux.flow, EnterStep(s), UNCHANGED sign,
           Follows(ux.flow, ux.at, s) \/ Follows(ux.flow, s, ux.at)
    PROVE  [Approval!Next]_Approval!approval
<1>1. ScreenOK /\ UNCHANGED replies
    BY DEF IInv, TypeOK, EnterStep, ShowAddress, Draw, CallbackThrows, io
<1>2. released' = released
    BY <1>1, ReleasedKept
<1>3. CASE Reviewing
  <2>1. ux.flow \subseteq ReviewSteps
      BY <1>3, ReviewFlow DEF IInv, ReviewInv, ReviewIsCurrent, SignScreen
  <2>2. Draw(s)
      BY <2>1 DEF EnterStep, ReviewSteps, TextPages
  <2>3. Reviewing' /\ "signing" \notin ReviewSteps
      BY <2>1, <2>2 DEF Draw, Screen, Reviewing, ReviewSteps, TextPages
  <2>4. offer' = offer /\ consent' = consent
      BY <1>3, <2>3 DEF offer, consent, SignScreen, Reviewing, sign
  <2> QED BY <1>2, <2>4, Same
<1>4. CASE ~ Reviewing
  <2>1. ux.flow \in Flows
      BY <1>1, <1>4 DEF ScreenOK, Reviewing
  <2>2. ux.at # "signing" /\ s \notin ReviewSteps \union {"signing"}
    <3>1. CASE ux.flow = ux_sign_tx_comfort_flow
      <4>1. ux.at = "signing" /\ s = "signing" /\ Pos["signing"] = 1
          BY <1>1, <3>1 DEF ScreenOK, ux_sign_tx_comfort_flow, Pos
      <4>2. ~ Follows(ux.flow, "signing", "signing")
          BY <3>1, <4>1 DEF Follows, ux_sign_tx_comfort_flow, ux_idle_flow
      <4> QED BY <4>1, <4>2
    <3>2. CASE ux.flow # ux_sign_tx_comfort_flow
        BY <1>1, <2>1, <3>2 DEF ScreenOK, Flows, ReviewSteps, TextPages, ux_idle_flow,
           ux_get_address_flow, ux_get_address_comfort_flow, ux_get_address_result_flow,
           ux_sign_tx_comfort_flow, ux_sign_tx_done_flow, ux_test_crypto_testing_flow,
           ux_test_crypto_done_flow
    <3> QED BY <3>1, <3>2
  <2>3. ~ SignScreen /\ ~ SignScreen'
    <3>1. ~ SignScreen
        BY <1>4, <2>2 DEF SignScreen
    <3>2. ux'.at = s
        BY DEF EnterStep, ShowAddress, Draw, CallbackThrows, Screen
    <3> QED BY <2>2, <3>1, <3>2 DEF SignScreen, Reviewing
  <2> QED BY <1>2, <2>3, Elsewhere
<1> QED BY <1>3, <1>4

----------------------------------------------------------------------------
LEMMA InitMaps == Init => Approval!Init
<1> SUFFICES ASSUME Init PROVE Approval!Init
    OBVIOUS
<1>1. ~ SignScreen /\ consent = FALSE
    BY DEF Init, ui_idle, Screen, SignScreen, Reviewing, ReviewSteps, TextPages, consent
<1>2. released = NothingCovered
    BY ReleasedNothing DEF Init, NoneSigned
<1> QED BY <1>1, <1>2 DEF Approval!Init, offer

(* Every step of the app is one of TxApproval, or leaves it alone.         *)
LEMMA StepMaps ==
    IInv /\ TypeOK' /\ [Next]_vars => [Approval!Next]_Approval!approval
<1> SUFFICES ASSUME IInv, TypeOK', [Next]_vars PROVE [Approval!Next]_Approval!approval
    OBVIOUS
<1>a. /\ ux.at \in ux.flow /\ replies \in Seq(Replies) /\ NoSignatureStaged
    BY DEF IInv, TypeOK, ScreenOK, ReviewInv
<1>1. ASSUME UNCHANGED <<ux, sign>>, released' = released \/ NoneSigned'
      PROVE  [Approval!Next]_Approval!approval
  <2>1. offer' = offer /\ consent' = consent
      BY <1>1 DEF offer, consent, SignScreen, Reviewing, sign
  <2> QED BY <1>1, <2>1, Same, Forgotten, ReleasedNothing
<1>2. CASE Exchange
  <2>1. released' = released
    <3>1. CASE UNCHANGED replies
        BY <3>1, ReleasedKept
    <3>2. CASE \E answer \in staged : replies' = Append(replies, answer)
      <4>1. PICK answer \in staged : replies' = Append(replies, answer)
          BY <3>2
      <4>2. ~ IsSignature(answer)
          BY <1>a DEF NoSignatureStaged
      <4> QED BY <1>a, <4>1, <4>2, ReleasedKept
    <3> QED BY <1>2, <3>1, <3>2 DEF Exchange
  <2> QED BY <1>1, <1>2, <2>1 DEF Exchange
<1>3. CASE ExchangeThrows \/ Quit \/ UNCHANGED vars
  <2>1. UNCHANGED <<ux, sign, replies>>
      BY <1>3 DEF ExchangeThrows, Quit, vars, io
  <2> QED BY <1>1, <2>1, ReleasedKept
<1>4. CASE RefuseApdu \/ GetConf
  <2>1. UNCHANGED <<ux, sign>> /\ NoneSigned'
      BY <1>4 DEF RefuseApdu, GetConf, Command, Receive, NoneSigned
  <2> QED BY <1>1, <2>1
<1>5. ASSUME NEW apdu, Receive(apdu), RefuseParameter
      PROVE  [Approval!Next]_Approval!approval
    BY <1>5, IdleNoReview, Gone DEF Receive, NoneSigned, RefuseParameter
<1>6. ASSUME NEW apdu, Receive(apdu), NEW f, NEW s \in {"addr_topic", "testing"},
             AnswerLater(Screen(f, s))
      PROVE  [Approval!Next]_Approval!approval
  <2>1. s \notin ReviewSteps \union {"signing"}
      BY DEF ReviewSteps, TextPages
  <2> QED BY <1>6, <2>1, NoReview, Gone DEF Receive, NoneSigned, AnswerLater
<1>7. CASE handle_get_address \/ handle_test_crypto
  <2>1. PICK apdu \in Apdus :
          /\ Receive(apdu)
          /\ \/ RefuseParameter
             \/ \E f : \E s \in {"addr_topic", "testing"} : AnswerLater(Screen(f, s))
      BY <1>7 DEF handle_get_address, handle_test_crypto, Command
  <2> QED BY <1>5, <1>6, <2>1
<1>8. CASE handle_sign_tx
  <2>1. PICK apdu \in Apdus :
          /\ Receive(apdu)
          /\ \/ RefuseParameter
             \/ AnswerLater(Screen(ux_sign_tx_flow(txState', uiState'), "topic"))
      BY <1>8 DEF handle_sign_tx, Command
  <2> QED BY <1>5, <2>1, Accepts
<1>9. CASE FlowNext \/ FlowPrev
  <2>1. PICK s \in ux.flow :
          EnterStep(s) /\ (Follows(ux.flow, ux.at, s) \/ Follows(ux.flow, s, ux.at))
      BY <1>9 DEF FlowNext, FlowPrev
  <2> QED BY <1>9, <2>1, Turned DEF FlowNext, FlowPrev
<1>10. CASE Approve \/ Reject
  <2>1. ux.flow # ux_idle_flow
      BY <1>10, <1>a DEF Approve, Reject, ux_idle_flow
  <2> QED BY <1>10, <2>1, AnsweredUnsigned DEF Approve, Reject, AddressBody, NoBody
<1>11. CASE Proceed
  <2>1. CASE ux.at = "approve" /\ ux' = Screen(ux_sign_tx_comfort_flow, "signing")
    <3>1. SignScreen /\ ~ consent /\ SignScreen' /\ consent'
        BY <2>1 DEF SignScreen, Reviewing, ReviewSteps, consent, Screen
    <3>2. offer # NothingCovered /\ offer' = offer
        BY <1>11, <3>1, OfferOnScreen DEF Proceed, offer, sign
    <3>3. released' = released
        BY <1>11, ReleasedKept DEF Proceed, io
    <3> QED BY <3>1, <3>2, <3>3 DEF Approval!Next, Approval!Consent, consent
  <2>2. CASE ux.at = "generate" /\ ux' = Screen(ux_get_address_comfort_flow, "processing")
    <3>1. ~ SignScreen /\ ~ SignScreen'
        BY <2>2 DEF SignScreen, Reviewing, ReviewSteps, TextPages, Screen
    <3>2. released' = released
        BY <1>11, ReleasedKept DEF Proceed, io
    <3> QED BY <3>1, <3>2, Elsewhere
  <2> QED BY <1>11, <2>1, <2>2 DEF Proceed
<1>12. CASE Elapse
  <2>1. ux.flow # ux_idle_flow
      BY <1>12, <1>a DEF Elapse, ux_idle_flow
  <2>2. CASE ShowAddress
    <3>1. "address" \notin ReviewSteps \union {"signing"}
        BY DEF ReviewSteps, TextPages
    <3>2. UNCHANGED replies /\ ux' = Screen(ux_get_address_result_flow, "address")
        BY <2>2 DEF ShowAddress, CallbackThrows, io
    <3> QED BY <2>1, <3>1, <3>2, NoReview, OtherScreenUp
  <2>3. CASE ux.at = "signing" /\ sign_transaction
      BY <2>3, Signed
  <2>4. CASE test_crypto
    <3>1. CASE sendResponse(SuccessBody, TRUE)
        BY <2>1, <3>1, AnsweredUnsigned DEF SuccessBody
    <3>2. CASE CallbackThrows(Screen(ux_test_crypto_done_flow, "tested"), INVALID_PARAMETER)
      <4>1. "tested" \notin ReviewSteps \union {"signing"}
          BY DEF ReviewSteps, TextPages
      <4> QED BY <2>1, <3>2, <4>1, NoReview, OtherScreenUp DEF CallbackThrows
    <3> QED BY <2>4, <3>1, <3>2 DEF test_crypto
  <2> QED BY <1>12, <2>2, <2>3, <2>4 DEF Elapse
<1>13. CASE IoReset \/ Launch
    BY <1>13, IdleNoReview, Gone DEF IoReset, Launch, Restart, NoneSigned
<1> QED BY <1>2, <1>3, <1>4, <1>7, <1>8, <1>9, <1>10, <1>11, <1>12, <1>13 DEF Next

(* Every behaviour of the app is one of TxApproval's: a signature is only  *)
(* released over the transaction on offer, after consent to that one, and  *)
(* once per consent, whatever requests arrive, fail or restart in between. *)
THEOREM Implements == ASSUME DecodableInputs PROVE Spec => ImplementsApproval
<1>1. Init => IInv
    BY InitType, ReviewInit DEF IInv
<1>2. IInv /\ [Next]_vars => IInv'
    BY NextType, ReviewNext DEF IInv
<1>3. Init => Approval!Init
    BY InitMaps
<1>4. IInv /\ [Next]_vars => [Approval!Next]_Approval!approval
    BY NextType, StepMaps DEF IInv
<1> QED BY <1>1, <1>2, <1>3, <1>4, PTL DEF Spec, ImplementsApproval, Approval!Spec
=============================================================================
