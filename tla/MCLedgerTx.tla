---------------------------- MODULE MCLedgerTx ----------------------------
(* Instances of LedgerTx for TLC. *)
EXTENDS LedgerTx, TLC

Symmetry == Permutations(Workers) \cup Permutations(Accounts) \cup Permutations(Keys)

=============================================================================
