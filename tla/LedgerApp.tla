----------------------------- MODULE LedgerApp -----------------------------
(***************************************************************************)
(* The Mina app on the device: the APDU loop of main.c, the handlers of    *)
(* the four commands, the screens they put up and the callbacks of those   *)
(* screens.                                                                *)
(*                                                                         *)
(* One thread runs everything.  app_main sits in io_exchange until an APDU *)
(* arrives; while it sits there, button presses and ticker events run the  *)
(* screens, and a callback may send the answer to a request whose handler  *)
(* returned long before (IO_ASYNCH_REPLY).  The host may send its next     *)
(* APDU at any moment, and its handler rewrites statics a screen is still  *)
(* showing.                                                                *)
(***************************************************************************)
EXTENDS ParseTx, Sequences

CONSTANTS
    Apdus,           \* the APDUs the host may send
    PatientHost,     \* TRUE: the host waits for an answer before its next APDU
    CryptoMayFail,   \* TRUE: key derivation and the curve checks may fail
    IoMayFail,       \* TRUE: io_exchange may throw
    CryptoTestBuild, \* TRUE: built with HAVE_CRYPTO_TESTS
    MaxReplies       \* bound: answers after which a failed derivation is not retried

ASSUME SwitchAssumption ==
    /\ {PatientHost, CryptoMayFail, IoMayFail, CryptoTestBuild} \subseteq BOOLEAN
    /\ MaxReplies \in Nat

VARIABLES
    pc,           \* where app_main is: "exchange", "waiting" or "exited"
    asynch,       \* IO_ASYNCH_REPLY is set in the flags of the next exchange
    staged,       \* the answer in the APDU buffer for the next exchange: at most one
    outstanding,  \* the host has an APDU unanswered
    request,      \* the last APDU received: at most one
    replies,      \* what the host has received since that APDU
    ux,           \* the flow on screen and its current step
    txState,      \* _tx of sign_tx.c
    uiState,      \* _ui of sign_tx.c
    account,      \* _account of get_address.c
    generated,    \* _generated of get_address.c
    address,      \* _address of get_address.c
    seen          \* the pages drawn since the request on screen was received

io   == <<pc, asynch, staged, outstanding, request, replies>>
sign == <<txState, uiState>>
addr == <<account, generated, address>>
vars == <<io, ux, sign, addr, seen>>

----------------------------------------------------------------------------
(* APDUs, answers and exceptions. *)

CLA              == 224    \* 0xE0
INS_GET_CONF     == 1
INS_GET_ADDR     == 2
INS_SIGN_TX      == 3
INS_TEST_CRYPTO  == 4
APDU_HEADER_LEN  == 5
MaxApduLength    == 260

SW_OK            == 36864  \* 0x9000
SW_REJECTED      == 27013  \* 0x6985
SW_NO_APDU       == 27010  \* 0x6982
SW_BAD_CLA       == 28160  \* 0x6E00
SW_BAD_INS       == 27904  \* 0x6D00

INVALID_PARAMETER == 2     \* exceptions of the operating system
INVALID_STATE     == 9

\* The status word the catch clauses make of exception e: 0x6800 | (e & 0x7FF)
\* unless it is a status word already.
CatchSw(e) == IF e \div 4096 \in {6, 9} THEN e ELSE 26624 + (e % 2048)
SW_INVALID == CatchSw(INVALID_PARAMETER)

Words == 0 .. 65535

\* The host sends any header; the data of an address request is an account,
\* that of a sign request a payload.
ASSUME ApduAssumption ==
    \A apdu \in Apdus :
        /\ apdu.ins = INS_GET_ADDR => apdu.data \in Uint32
        /\ apdu.ins = INS_SIGN_TX => apdu.data \in Payload

\* An answer: a body, of which len counts the bytes, and a status word.
NoBody          == [kind |-> "none", len |-> 0]
VersionBody     == [kind |-> "version", len |-> 3]
SuccessBody     == [kind |-> "success", len |-> 8]
AddressBody(a)  == [kind |-> "address", len |-> 56, address |-> a]
SignatureBody(key, msg, net) ==
    [kind |-> "signature", len |-> 64, key |-> key, msg |-> msg, network_id |-> net]

Blank == NoAddress      \* _address[0] = '\0'

Bodies == {NoBody, VersionBody, SuccessBody}
            \union {AddressBody(a) : a \in Addresses}
            \union [kind : {"signature"}, len : {64}, key : PubKeys, msg : Messages,
                    network_id : Byte]
Replies == [body : Bodies, sw : Words]

----------------------------------------------------------------------------
(* Screens.  A flow is the set of its steps; Pos orders the steps of each. *)

ux_idle_flow                == {"ready", "version", "quit"}
ux_get_address_flow         == {"addr_topic", "path", "generate", "cancel"}
ux_get_address_comfort_flow == {"processing"}
ux_get_address_result_flow  == {"address", "addr_approve", "addr_reject"}
ux_sign_tx_comfort_flow     == {"signing"}
ux_sign_tx_done_flow        == {"signed"}
ux_test_crypto_testing_flow == {"testing"}
ux_test_crypto_done_flow    == {"tested"}
ReviewSteps == {"topic", "approve", "reject"} \union TextPages

Steps == ux_idle_flow \union ux_get_address_flow \union ux_get_address_comfort_flow
           \union ux_get_address_result_flow \union ux_sign_tx_comfort_flow
           \union ux_sign_tx_done_flow \union ux_test_crypto_testing_flow
           \union ux_test_crypto_done_flow \union ReviewSteps

Pos == [ready |-> 1, version |-> 2, quit |-> 3,
        addr_topic |-> 1, path |-> 2, generate |-> 3, cancel |-> 4,
        processing |-> 1,
        address |-> 1, addr_approve |-> 2, addr_reject |-> 3,
        topic |-> 1, network |-> 2, type |-> 3, from |-> 4, to |-> 5,
        amount |-> 6, fee |-> 7, total |-> 8, nonce |-> 9, valid_until |-> 10,
        memo |-> 11, approve |-> 12, reject |-> 13,
        signing |-> 1, signed |-> 1, testing |-> 1, tested |-> 1]

Screen(flow, step) == [flow |-> flow, at |-> step]
ui_idle == Screen(ux_idle_flow, "ready")

\* Step b comes right after step a in flow f; the idle flow loops.
Follows(f, a, b) ==
    \/ /\ Pos[a] < Pos[b]
       /\ \A c \in f : Pos[a] < Pos[c] => Pos[b] <= Pos[c]
    \/ f = ux_idle_flow /\ a = "quit" /\ b = "ready"

Reviewing == ux.at \in ReviewSteps

----------------------------------------------------------------------------
Init ==
    /\ pc = "exchange"
    /\ asynch = FALSE
    /\ staged = {}
    /\ outstanding = FALSE
    /\ request = {}
    /\ replies = <<>>
    /\ ux = ui_idle
    /\ txState = ZeroTx
    /\ uiState = ZeroUi
    /\ account = 0
    /\ generated = FALSE
    /\ address = Blank
    /\ seen = {}

(***************************************************************************)
(* The loop of app_main.  The length to send is zeroed before io_exchange  *)
(* runs, so an exception there answers with its status word alone.         *)
(***************************************************************************)
Staged(body, sw) == {[body |-> body, sw |-> sw]}

Exchange ==
    /\ pc = "exchange"
    /\ pc' = "waiting"
    /\ staged' = {}
    /\ IF asynch \/ staged = {}
          THEN UNCHANGED <<replies, outstanding>>
          ELSE /\ \E answer \in staged : replies' = Append(replies, answer)
               /\ outstanding' = FALSE
    /\ UNCHANGED <<asynch, request, ux, sign, addr, seen>>

\* Slip: the asynchronous flag survives an exception.
Throw_keepsAsynch(e) ==
    /\ pc' = "exchange"
    /\ UNCHANGED asynch
    /\ staged' = Staged(NoBody, CatchSw(e))

\* The catch clause of app_main, for an exception that left io_exchange.
Throw(e) ==
    /\ pc' = "exchange"
    /\ asynch' = FALSE
    /\ staged' = Staged(NoBody, CatchSw(e))

\* Slip: tx still counts the answer that was to be sent.
ExchangeThrows_keepsTx ==
    /\ IoMayFail
    /\ pc = "exchange"
    /\ asynch' = FALSE
    /\ \E a \in staged : staged' = Staged(a.body, CatchSw(INVALID_STATE))
    /\ UNCHANGED <<pc, outstanding, request, replies, ux, sign, addr, seen>>

ExchangeThrows ==
    /\ IoMayFail
    /\ pc = "exchange"
    /\ staged # {}
    /\ Throw(INVALID_STATE)
    /\ UNCHANGED <<outstanding, request, replies, ux, sign, addr, seen>>

----------------------------------------------------------------------------
(* The handlers: each takes an APDU out of io_exchange and returns to the  *)
(* top of the loop with an answer staged, or with a screen up and          *)
(* IO_ASYNCH_REPLY set.                                                    *)

Receive(apdu) ==
    /\ pc = "waiting"
    /\ PatientHost => ~ outstanding
    /\ pc' = "exchange"
    /\ request' = {apdu}
    /\ outstanding' = TRUE
    /\ replies' = <<>>

Answer(body, sw) ==
    /\ asynch' = FALSE
    /\ staged' = Staged(body, sw)

AnswerLater(screen) ==
    /\ asynch' = TRUE
    /\ staged' = {}
    /\ ux' = screen
    /\ seen' = {}

\* Why handleApdu, or app_main before it, refuses an APDU; 0 if neither does.
Known == {INS_GET_CONF, INS_GET_ADDR, INS_SIGN_TX}
            \union (IF CryptoTestBuild THEN {INS_TEST_CRYPTO} ELSE {})
Refusal(apdu) ==
    IF      apdu.rx = 0                           THEN SW_NO_APDU
    ELSE IF apdu.rx > MaxApduLength               THEN SW_BAD_CLA
    ELSE IF apdu.cla # CLA                        THEN SW_BAD_CLA
    ELSE IF apdu.lc + APDU_HEADER_LEN # apdu.rx   THEN SW_BAD_CLA
    ELSE IF apdu.ins \notin Known                 THEN SW_BAD_INS
    ELSE 0

RefuseApdu == \E apdu \in Apdus :
    /\ Receive(apdu)
    /\ Refusal(apdu) # 0
    /\ Answer(NoBody, Refusal(apdu))
    /\ UNCHANGED <<ux, sign, addr, seen>>

Command(ins, apdu) ==
    /\ Receive(apdu)
    /\ Refusal(apdu) = 0
    /\ apdu.ins = ins

\* Slip: the screen stays up when the request that rewrote its texts is refused.
RefuseParameter_keepsScreen ==
    /\ Answer(NoBody, SW_INVALID)
    /\ UNCHANGED <<ux, seen>>

\* handleApdu's catch clause for the INVALID_PARAMETER of a handler: the
\* status word, and since it is 0x6802, the idle screen.
RefuseParameter ==
    /\ Answer(NoBody, SW_INVALID)
    /\ ux' = ui_idle
    /\ UNCHANGED seen

GetConf == \E apdu \in Apdus :
    /\ Command(INS_GET_CONF, apdu)
    /\ Answer(VersionBody, SW_OK)
    /\ UNCHANGED <<ux, sign, addr, seen>>

\* Slip: _generated is not reset, so the address of an earlier request stays.
handle_get_address_stale == \E apdu \in Apdus :
    /\ Command(INS_GET_ADDR, apdu)
    /\ IF apdu.lc # 4
          THEN RefuseParameter /\ UNCHANGED addr
          ELSE /\ account' = apdu.data
               /\ UNCHANGED <<generated, address>>
               /\ AnswerLater(Screen(ux_get_address_flow, "addr_topic"))
    /\ UNCHANGED sign

handle_get_address == \E apdu \in Apdus :
    /\ Command(INS_GET_ADDR, apdu)
    /\ IF apdu.lc # 4
          THEN RefuseParameter /\ UNCHANGED addr
          ELSE /\ generated' = FALSE
               /\ address' = Blank
               /\ account' = apdu.data
               /\ AnswerLater(Screen(ux_get_address_flow, "addr_topic"))
    /\ UNCHANGED sign

handle_sign_tx == \E apdu \in Apdus, r \in Residues :
    /\ Command(INS_SIGN_TX, apdu)
    /\ LET stage == parse_tx(apdu.data, apdu.lc, r)
       IN  /\ txState' = WriteTx(txState, apdu.data, stage, r)
           /\ uiState' = WriteUi(uiState, apdu.data, stage)
           /\ IF stage = Accepted
                 THEN AnswerLater(Screen(ux_sign_tx_flow(txState', uiState'), "topic"))
                 ELSE RefuseParameter
    /\ UNCHANGED addr

handle_test_crypto == \E apdu \in Apdus :
    /\ Command(INS_TEST_CRYPTO, apdu)
    /\ IF apdu.lc # 0
          THEN RefuseParameter
          ELSE AnswerLater(Screen(ux_test_crypto_testing_flow, "testing"))
    /\ UNCHANGED <<sign, addr>>

----------------------------------------------------------------------------
(* Buttons and the ticker, while app_main waits. *)

\* Slip: the screen that answered stays up.
sendResponse_keepsScreen(body, approve) ==
    /\ replies' = Append(replies, [body |-> IF approve THEN body ELSE NoBody,
                                   sw |-> IF approve THEN SW_OK ELSE SW_REJECTED])
    /\ outstanding' = FALSE
    /\ UNCHANGED <<pc, asynch, staged, request, ux>>

\* sendResponse: a nested io_exchange sends, then the idle screen comes back.
sendResponse(body, approve) ==
    /\ replies' = Append(replies, [body |-> IF approve THEN body ELSE NoBody,
                                   sw |-> IF approve THEN SW_OK ELSE SW_REJECTED])
    /\ outstanding' = FALSE
    /\ ux' = ui_idle
    /\ UNCHANGED <<pc, asynch, staged, request>>

\* Slip: the comfort step is still current after its work has failed.
CallbackThrows_keepsScreen(screen, e) ==
    /\ Throw(e)
    /\ UNCHANGED <<outstanding, request, replies, ux>>

\* A callback throws through io_exchange into app_main; its step stays current.
CallbackThrows(screen, e) ==
    /\ Throw(e)
    /\ ux' = screen
    /\ UNCHANGED <<outstanding, request, replies>>

\* The pages whose text the user gets to see when step s is drawn.
Drawn(s) ==
    IF s \in TextPages THEN {<<s, PageText(uiState, s)>>}
    ELSE IF s = "path" THEN {<<s, ValueText[account]>>}
    ELSE {}

Draw(s) ==
    /\ ux' = Screen(ux.flow, s)
    /\ seen' = seen \union Drawn(s)
    /\ UNCHANGED <<io, addr>>

\* gen_address, the init callback of the address step, then the step itself.
ShowAddress ==
    LET screen == Screen(ux_get_address_result_flow, "address")
    IN  \/ /\ address' = IF generated THEN address ELSE generate_address(KeyOf(account))
           /\ generated' = TRUE
           /\ ux' = screen
           /\ seen' = seen \union {<<"address", address'>>}
           /\ UNCHANGED <<io, account>>
        \/ /\ CryptoMayFail /\ ~ generated
           /\ Len(replies) < MaxReplies
           /\ CallbackThrows(screen, INVALID_PARAMETER)
           /\ UNCHANGED <<addr, seen>>

EnterStep(s) == IF s = "address" THEN ShowAddress ELSE Draw(s)

FlowNext ==
    /\ pc = "waiting"
    /\ \E s \in ux.flow : Follows(ux.flow, ux.at, s) /\ EnterStep(s)
    /\ UNCHANGED sign

FlowPrev ==
    /\ pc = "waiting"
    /\ \E s \in ux.flow : Follows(ux.flow, s, ux.at) /\ EnterStep(s)
    /\ UNCHANGED sign

\* Both buttons on a step that answers the request.
Approve ==
    /\ pc = "waiting"
    /\ ux.at = "addr_approve"
    /\ sendResponse(AddressBody(address), TRUE)
    /\ UNCHANGED <<sign, addr, seen>>

Reject ==
    /\ pc = "waiting"
    /\ ux.at \in {"cancel", "addr_reject", "reject"}
    /\ sendResponse(NoBody, FALSE)
    /\ UNCHANGED <<sign, addr, seen>>

\* Slip: the step changes but its flow is not set up.
Proceed_keepsFlow ==
    /\ pc = "waiting"
    /\ \/ ux.at = "generate" /\ ux' = Screen(ux.flow, "processing")
       \/ ux.at = "approve" /\ ux' = Screen(ux.flow, "signing")
    /\ UNCHANGED <<io, sign, addr, seen>>

\* Both buttons on a step that starts the slow part of the request.
Proceed ==
    /\ pc = "waiting"
    /\ \/ ux.at = "generate" /\ ux' = Screen(ux_get_address_comfort_flow, "processing")
       \/ ux.at = "approve" /\ ux' = Screen(ux_sign_tx_comfort_flow, "signing")
    /\ UNCHANGED <<io, sign, addr, seen>>

\* Slip: the account's address is not compared with the from address.
sign_transaction_anyFrom ==
    sendResponse(SignatureBody(KeyOf(txState.account), transaction_to_roinput(txState),
                               txState.network_id), TRUE)

\* sign_transaction, the init callback of the done step.
sign_transaction ==
    \/ /\ uiState.from = generate_address(KeyOf(txState.account))
       /\ sendResponse(SignatureBody(KeyOf(txState.account),
                                     transaction_to_roinput(txState),
                                     txState.network_id), TRUE)
    \/ /\ uiState.from # generate_address(KeyOf(txState.account)) \/ CryptoMayFail
       /\ CallbackThrows(Screen(ux_sign_tx_done_flow, "signed"), INVALID_PARAMETER)

test_crypto ==
    \/ sendResponse(SuccessBody, TRUE)
    \/ /\ CryptoMayFail
       /\ CallbackThrows(Screen(ux_test_crypto_done_flow, "tested"), INVALID_PARAMETER)

\* Slip: the step before the address result has no timeout.
Elapse_notProcessing ==
    /\ pc = "waiting"
    /\ \/ ux.at = "signing" /\ sign_transaction
       \/ ux.at = "testing" /\ test_crypto
    /\ UNCHANGED <<sign, addr, seen>>

(***************************************************************************)
(* The timeout of a comfort step: the ticker, or both buttons before it,   *)
(* moves on to the flow whose first step does the work.                    *)
(***************************************************************************)
Elapse ==
    /\ pc = "waiting"
    /\ \/ ux.at = "processing" /\ ShowAddress
       \/ ux.at = "signing" /\ sign_transaction /\ UNCHANGED <<addr, seen>>
       \/ ux.at = "testing" /\ test_crypto /\ UNCHANGED <<addr, seen>>
    /\ UNCHANGED sign

----------------------------------------------------------------------------
(* The app stops and starts. *)

\* main's loop runs again after the cable is pulled: the transport and the
\* screen start over, the statics stay.
Restart ==
    /\ pc' = "exchange"
    /\ asynch' = FALSE
    /\ staged' = {}
    /\ outstanding' = FALSE
    /\ request' = {}
    /\ replies' = <<>>
    /\ ux' = ui_idle

IoReset ==
    /\ pc = "waiting"
    /\ Restart
    /\ UNCHANGED <<sign, addr, seen>>

Quit ==
    /\ pc = "waiting"
    /\ ux.at = "quit"
    /\ pc' = "exited"
    /\ UNCHANGED <<asynch, staged, outstanding, request, replies, ux, sign, addr, seen>>

\* The user opens the app again: the statics are zeroed.
Launch ==
    /\ pc = "exited"
    /\ Restart
    /\ txState' = ZeroTx
    /\ uiState' = ZeroUi
    /\ account' = 0
    /\ generated' = FALSE
    /\ address' = Blank
    /\ seen' = {}

Next ==
    \/ Exchange \/ ExchangeThrows
    \/ RefuseApdu \/ GetConf \/ handle_get_address \/ handle_sign_tx \/ handle_test_crypto
    \/ FlowNext \/ FlowPrev \/ Approve \/ Reject \/ Proceed \/ Elapse
    \/ IoReset \/ Quit \/ Launch

Spec == Init /\ [][Next]_vars

\* app_main returns to io_exchange by itself, and the ticker never stops.
FairSpec == Spec /\ WF_vars(Exchange) /\ WF_vars(Elapse)

----------------------------------------------------------------------------
(* Properties. *)

(* Every variable stays within its type: in particular the screen is       *)
(* always a step of the flow it belongs to.                                *)
Flows == {ux_idle_flow, ux_get_address_flow, ux_get_address_comfort_flow,
          ux_get_address_result_flow, ux_sign_tx_comfort_flow, ux_sign_tx_done_flow,
          ux_test_crypto_testing_flow, ux_test_crypto_done_flow}

ScreenOK ==
    /\ ux.at \in ux.flow
    /\ ux.flow \in Flows \/ ux.flow \subseteq ReviewSteps

TypeOK ==
    /\ pc \in {"exchange", "waiting", "exited"}
    /\ asynch \in BOOLEAN
    /\ staged \subseteq Replies
    /\ outstanding \in BOOLEAN
    /\ request \subseteq Apdus
    /\ replies \in Seq(Replies)
    /\ ScreenOK
    /\ txState \in Tx
    /\ uiState \in Ui
    /\ account \in Uint32
    /\ generated \in BOOLEAN
    /\ address \in Addresses

(* What you see is what you sign: when a signature leaves the device, the  *)
(* pages drawn since its review began are exactly those the signed message *)
(* calls for, and each showed the value that was signed.  The statics      *)
(* behind the pages may have been rewritten, in full or in part, by        *)
(* requests that arrived while the review was on screen.                   *)
IsDelegation(msg) == msg.tag_bits = <<FALSE, FALSE, TRUE>>

Agrees(page, text, sig) ==
    CASE page = "network"     -> text = "testnet" /\ sig.network_id = TESTNET_ID
      [] page = "type"        -> text = (IF IsDelegation(sig.msg) THEN "Delegation" ELSE "Payment")
      [] page = "from"        -> /\ text = generate_address(sig.key)
                                 /\ sig.msg.source_pk = sig.key
                                 /\ sig.msg.fee_payer_pk = sig.key
      [] page = "to"          -> text.pk = sig.msg.receiver_pk
      [] page = "amount"      -> text = AmountText[sig.msg.amount]
      [] page = "fee"         -> text = AmountText[sig.msg.fee]
      [] page = "total"       -> /\ sig.msg.amount + sig.msg.fee \in Currency
                                 /\ text = AmountText[sig.msg.amount + sig.msg.fee]
      [] page = "nonce"       -> text = ValueText[sig.msg.nonce]
      [] page = "valid_until" -> text = ValueText[sig.msg.valid_until]
      [] page = "memo"        -> text = sig.msg.memo
      [] OTHER                -> FALSE

CalledFor(sig) ==
    {"type", "from", "to", "fee", "nonce"}
        \union (IF sig.network_id = MAINNET_ID THEN {} ELSE {"network"})
        \union (IF IsDelegation(sig.msg) THEN {} ELSE {"amount", "total"})
        \union (IF sig.msg.valid_until = Forever THEN {} ELSE {"valid_until"})
        \union (IF sig.msg.memo = NoMemo THEN {} ELSE {"memo"})

IsSignature(answer) == answer.body.kind = "signature"

SawWhatIsSigned(sig) ==
    /\ {page[1] : page \in seen} = CalledFor(sig)
    /\ \A page \in seen : Agrees(page[1], page[2], sig)

SignedAsShown ==
    \A i \in DOMAIN replies :
        IsSignature(replies[i]) => SawWhatIsSigned(replies[i].body)

(* An address that leaves the device was drawn since its request arrived,  *)
(* after the path it belongs to, and is the one derived for that path:     *)
(* never one left in _address by an earlier request, never a blank one.    *)
AddressAsShown ==
    \A i \in DOMAIN replies :
        replies[i].body.kind = "address" =>
            /\ replies[i].body.address = generate_address(KeyOf(account))
            /\ <<"address", replies[i].body.address>> \in seen
            /\ <<"path", ValueText[account]>> \in seen

(* A host that waits for its answers gets exactly one to each APDU, and a  *)
(* successful answer is to that APDU: the command's own kind, the address  *)
(* of the account asked for, a signature over the payload sent.            *)
AnswersTo(apdu, body) ==
    \/ apdu.ins = INS_GET_CONF /\ body = VersionBody
    \/ apdu.ins = INS_TEST_CRYPTO /\ body = SuccessBody
    \/ apdu.ins = INS_GET_ADDR /\ body = AddressBody(generate_address(KeyOf(apdu.data)))
    \/ /\ apdu.ins = INS_SIGN_TX
       /\ \E r \in Residues :
            LET tx == WriteTx(ZeroTx, apdu.data, Accepted, r)
            IN  body = SignatureBody(KeyOf(tx.account), transaction_to_roinput(tx), tx.network_id)

OneAnswerEach ==
    PatientHost =>
        /\ outstanding = (request # {} /\ replies = <<>>)
        /\ Len(replies) <= 1
        /\ \A i \in DOMAIN replies, apdu \in request :
               replies[i].sw = SW_OK => AnswersTo(apdu, replies[i].body)

(* A request is never forgotten: while the host is owed an answer and      *)
(* app_main waits for the next APDU, the screen is one whose buttons or    *)
(* timeout send that answer, never the idle screen or one whose callback   *)
(* has failed.                                                             *)
AnsweringSteps == Steps \ (ux_idle_flow \union {"signed", "tested"})

PendingHasScreen ==
    pc = "waiting" /\ outstanding => asynch /\ ux.at \in AnsweringSteps

(* With a host that waits, and derivation that works, no screen outlives   *)
(* its request: once the answer is out nothing on screen can send another. *)
NoScreenWithoutRequest ==
    PatientHost /\ pc = "waiting" /\ ~ outstanding => ux.at \notin AnsweringSteps

(* An answer that is not 0x9000 is a status word and nothing else: no part *)
(* of an answer that was being prepared goes out under an error, whatever  *)
(* threw and wherever.                                                     *)
ErrorsCarryNoBody ==
    \A i \in DOMAIN replies : replies[i].sw # SW_OK => replies[i].body = NoBody

(* The review on screen is of the transaction in _tx: every page drawn     *)
(* still shows what _ui holds, every page up to the current step has been  *)
(* drawn, _ui and _tx come from the same accepted request and the flow is  *)
(* the one chosen for it.  A signature only ever leaves with the idle      *)
(* screen coming up behind it, and is never left in the buffer for later.  *)
SignScreen == Reviewing \/ ux.at = "signing"

Matches(tx, ui) ==
    /\ tx.network_id \in {TESTNET_ID, MAINNET_ID}
    /\ tx.tag \in {PAYMENT_TX, DELEGATION_TX} /\ tx.tag_bits = TagBits(tx.tag)
    /\ ui.type = TypeText(tx.tag)
    /\ tx.amount + tx.fee \in Currency
    /\ ui.amount = AmountText[tx.amount] /\ ui.fee = AmountText[tx.fee]
    /\ ui.total = AmountText[tx.amount + tx.fee]
    /\ ui.nonce = ValueText[tx.nonce] /\ ui.valid_until = ValueText[tx.valid_until]
    /\ ui.memo = tx.memo
    /\ tx.source_pk = ui.from.pk /\ tx.fee_payer_pk = ui.from.pk
    /\ tx.receiver_pk = ui.to.pk

ReviewPages == ux_sign_tx_flow(txState, uiState) \intersect TextPages

DrawnSoFar == {page \in ReviewPages : ux.at = "signing" \/ Pos[page] <= Pos[ux.at]}

ReviewIsCurrent ==
    SignScreen =>
        /\ Matches(txState, uiState)
        /\ Reviewing => ux.flow = ux_sign_tx_flow(txState, uiState)
        /\ \A page \in seen : page[1] \in ReviewPages /\ page[2] = PageText(uiState, page[1])
        /\ \A page \in DrawnSoFar : <<page, PageText(uiState, page)>> \in seen

SignatureEndsReview ==
    (\E i \in DOMAIN replies : IsSignature(replies[i])) => ux.flow = ux_idle_flow

NoSignatureStaged == \A answer \in staged : ~ IsSignature(answer)

ReviewInv == ReviewIsCurrent /\ SignatureEndsReview /\ NoSignatureStaged

(* The requests whose addresses all decode, for which nothing is read from *)
(* an unwritten buffer.                                                    *)
DecodableInputs ==
    \A apdu \in Apdus : apdu.ins = INS_SIGN_TX /\ apdu.lc = PayloadLength =>
        apdu.data.from.enc # "undecodable" /\ apdu.data.to.enc # "undecodable"

(* Every request is answered, or comes to a screen where the user decides. *)
(* Neither a comfort step nor an exception leaves the host waiting for     *)
(* nothing.                                                                *)
UserDecides == ux.flow \in {ux_get_address_flow, ux_get_address_result_flow} \/ Reviewing
AnsweredOrDecided == outstanding ~> (~ outstanding \/ UserDecides)
=============================================================================
