---------------------------- MODULE MCPositions ----------------------------
(* Instances of Positions for TLC. *)
EXTENDS Positions, TLC

Symmetry == Permutations(Accounts) \cup Permutations(Instruments) \cup Permutations(Keys)

Halves == {<<1, 2>>}
BothWays == {<<1, 2>>, <<2, 1>>}

=============================================================================
