----------------------------- MODULE GrantChain -----------------------------
(***************************************************************************)
(* What internal/oauth promises about the secrets of a grant, whatever     *)
(* overlaps: a live grant has exactly one secret that can still be turned  *)
(* into tokens, first its authorization code and then its newest refresh   *)
(* token; spending it yields the next one and never an earlier one; a      *)
(* grant that ended has none, and does not come back.                      *)
(***************************************************************************)
EXTENDS Naturals

CONSTANTS
  Grants,
  Secrets  \* serial numbers in order of issue, from 0, a grant's code

VARIABLES
  state,   \* "none", then "live", then "ended"
  secret   \* the secrets of each grant that can be spent

Init ==
  /\ state = [g \in Grants |-> "none"]
  /\ secret = [g \in Grants |-> {}]

\* Consent creates the grant with its code and may end earlier grants.
Open(g, replaced) ==
  /\ state[g] = "none"
  /\ \A h \in replaced : state[h] = "live"
  /\ state' = [h \in Grants |-> IF h = g THEN "live"
                                ELSE IF h \in replaced THEN "ended" ELSE state[h]]
  /\ secret' = [h \in Grants |-> IF h = g THEN {0}
                                 ELSE IF h \in replaced THEN {} ELSE secret[h]]

Spend(g) ==
  /\ state[g] = "live"
  /\ \E old, new \in Secrets : /\ secret[g] = {old} /\ new > old
                               /\ secret' = [secret EXCEPT ![g] = {new}]
  /\ UNCHANGED state

End(g) ==
  /\ state[g] = "live"
  /\ state' = [state EXCEPT ![g] = "ended"]
  /\ secret' = [secret EXCEPT ![g] = {}]

Next == \E g \in Grants : \/ \E replaced \in SUBSET (Grants \ {g}) : Open(g, replaced)
                          \/ Spend(g)
                          \/ End(g)

Spec == Init /\ [][Next]_<<state, secret>>

=============================================================================
