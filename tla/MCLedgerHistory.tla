---------------------------- MODULE MCLedgerHistory ----------------------------
(* Instances of LedgerHistory for TLC. *)
EXTENDS LedgerHistory
=============================================================================
