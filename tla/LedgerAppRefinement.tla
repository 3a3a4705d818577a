------------------------ MODULE LedgerAppRefinement ------------------------
(***************************************************************************)
(* The app implements TxApproval: the offer is the content of _tx while    *)
(* its review or "Signing..." is on screen, consent is the step from       *)
(* Approve to "Signing...", and the release is the answer that carries a   *)
(* signature.                                                              *)
(***************************************************************************)
EXTENDS LedgerApp

\* What a signature covers, and under which key: the same for _tx on its way
\* to sign_transaction and for an answer on its way to the host.
Covered(key, msg, net) == [key |-> key, msg |-> msg, network_id |-> net]
NothingCovered == [key |-> NoKey]

offer ==
    IF SignScreen
       THEN Covered(txState.source_pk, transaction_to_roinput(txState), txState.network_id)
       ELSE NothingCovered

consent == ux.at = "signing"

Signatures == {i \in DOMAIN replies : IsSignature(replies[i])}

released ==
    IF Signatures = {}
       THEN NothingCovered
       ELSE LET sig == replies[CHOOSE i \in Signatures : TRUE].body
            IN  Covered(sig.key, sig.msg, sig.network_id)

Approval == INSTANCE TxApproval WITH
    Transactions <- [key : Keys, msg : Messages, network_id : Byte],
    None         <- NothingCovered

(* Every step of the app is a step of TxApproval or leaves its variables   *)
(* alone: nothing is signed that was not offered, consented to and still   *)
(* on offer when the signature was made.                                   *)
ImplementsApproval == Approval!Spec
=============================================================================
