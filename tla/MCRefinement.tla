---------------------------- MODULE MCRefinement ----------------------------
(* LedgerAppRefinement on the instance of MCLedgerApp. *)
EXTENDS MCLedgerApp, LedgerAppRefinement
=============================================================================
