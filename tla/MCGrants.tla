------------------------------ MODULE MCGrants ------------------------------
(***************************************************************************)
(* An instance for TLC of the grants of applications: one that is renewed  *)
(* and replayed as the clock goes on, or several that replace each other   *)
(* before it does.                                                         *)
(***************************************************************************)
EXTENDS OAuthGrants, TLC

VARIABLE part

Asked == {g \in Grants : request[g].state # "none"}

GrantsInit == part \in {"one", "several"} /\ Init

\* BOUND: one request, or no clock and one pair of tokens less.
GrantsNext ==
  /\ Next /\ UNCHANGED part
  /\ part = "one" => Cardinality(Asked') <= 1
  /\ part = "several" => now' = 0 /\ nextIssue' <= MaxIssues

GrantsSpec == GrantsInit /\ [][GrantsNext]_<<part, vars>>

Symmetry == Permutations(Workers) \cup Permutations(Grants)

=============================================================================
