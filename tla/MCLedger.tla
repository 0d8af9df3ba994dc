------------------------------ MODULE MCLedger ------------------------------
(* Instances of Ledger for TLC. *)
EXTENDS Ledger, TLC

Symmetry == Permutations(AccountIds) \cup Permutations(Keys)

=============================================================================
