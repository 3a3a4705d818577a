----------------------------- MODULE DocClaims -----------------------------
(***************************************************************************)
(* What the repository's documents and tests say of the app and the code   *)
(* does otherwise.  Each claim has a run that shows the difference.        *)
(***************************************************************************)
EXTENDS LedgerApp

(* tests/unit_tests.py: a sign request with a corrupt receiver address is  *)
(* refused.  parse_tx ignores that b58_decode failed and checks the sum of *)
(* whatever the buffer holds.                                              *)
CorruptReceiverRefused ==
    \A apdu \in request, i \in DOMAIN replies :
        apdu.ins = INS_SIGN_TX /\ apdu.data.to.enc = "undecodable" => replies[i].sw # SW_OK

(* doc/api.asc: GET ADDRESS returns an address for the account number.     *)
(* When the derivation throws, the host gets 0x6802, but the buttons stay  *)
(* alive: Approve then sends 0x9000 with _address still blank.             *)
ReturnsAnAddress ==
    \A i \in DOMAIN replies :
        replies[i].body.kind = "address" => replies[i].body.address # Blank
=============================================================================
