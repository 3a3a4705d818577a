---------------------------- MODULE MCDocClaims ----------------------------
(* DocClaims on the instance of MCLedgerApp. *)
EXTENDS MCLedgerApp, DocClaims
=============================================================================
