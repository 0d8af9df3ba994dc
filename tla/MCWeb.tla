------------------------------- MODULE MCWeb -------------------------------
(* An instance for TLC of what the web client sends. *)
EXTENDS WebWrites, WebFormTable, Integers, TLC

\* The forms of the client.  Of those that keep no key for an attempt no two
\* submissions have the same key, so it is all one whether they send it and what
\* the server would make of it; of these, the ones that show a submission as
\* pending after they are gone, stay on the page, or cannot be dismissed.
Representatives ==
    {f \in ClientForms : f.keys = "attempt"}
    \cup {[f EXCEPT !.keys = "none", !.effect = "create"] :
              f \in {g \in ClientForms : /\ g.keys # "attempt"
                                         /\ g.lifts \/ ~g.closes \/ (g.holds /\ ~g.remounts)}}

\* Instruments quoted in the account's currency and in another.
Quotes == ("i" :> "account") @@ ("j" :> "other")

\* Two files; the trade of the second needs one of the first; a row nobody takes.
TwoFiles == <<{1, 3}, {2, 4}>>
Earlier  == [r \in 1..4 |-> IF r = 2 THEN {1} ELSE {}]

\* Two ways to fill in a conversion, and the balances there may be.
Totals     == ("x" :> 1) @@ ("y" :> 2)
OneToThree == 1..3

=============================================================================
