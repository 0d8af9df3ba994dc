--------------------------- MODULE MCOAuthGrants ---------------------------
(* Instances of OAuthGrants for TLC. *)
EXTENDS OAuthGrants, TLC

Symmetry == Permutations(Workers) \cup Permutations(Grants)

=============================================================================
