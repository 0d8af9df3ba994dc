------------------------------ MODULE MCViews ------------------------------
(***************************************************************************)
(* An instance for TLC of what the web client shows (WebViews) and of the  *)
(* requests of the estate plan, as they overlap on the server (Estate).    *)
(* They share no state, and a behaviour is that of one of them.            *)
(***************************************************************************)
EXTENDS MCEstate, WebViews, WebPageTable

\* Two panels of the settings; the page has more.
TwoPanels == {ProfileForm, RegionalForm}

ASSUME \A s \in ClientSections : s \in C!SectionType

\* An account tracked by position, in a foreign currency, what it holds quoted in
\* the base currency, and a liability in the base currency.
CurrencyOfTwo == ("a" :> "U") @@ ("b" :> "E")
QuoteOfOne    == "a" :> "E"
WorthOfTwo    == ("a" :> 2) @@ ("b" :> 3)
CashOfTwo     == ("a" :> 1) @@ ("b" :> 0)

\* A deposit that the search finds and a purchase that it does not.
TwoRows == 1..2
Typed   == <<"deposit", "buy">>
Kinded  == ("deposit" :> "transaction") @@ ("buy" :> "position")
Tried   == {[kind |-> "all", type |-> "all", q |-> FALSE],
            [kind |-> "position", type |-> "buy", q |-> FALSE]}

-----------------------------------------------------------------------------
MCInit ==
  \/ /\ part = "requests" /\ Init
     /\ list = 0 /\ view = 0 /\ changes = 0 /\ accounts = 0 /\ page = 0
     /\ NoCache /\ NoAccounts /\ NoAllocation /\ NoEstate /\ NoActivity
  \/ Init /\ ViewsInit

MCNext ==
  \/ part = "requests" /\ Next /\ UNCHANGED viewsVars
  \/ ViewsNext /\ UNCHANGED vars

MCSpec == MCInit /\ [][MCNext]_<<viewsVars, vars>>

=============================================================================
