------------------------------ MODULE MCEstate ------------------------------
(* Instances of Estate for TLC. *)
EXTENDS Estate, TLC

Symmetry == Permutations(Workers) \cup Permutations(Beneficiaries)

=============================================================================
