--------------------------- MODULE WebNewAccount ----------------------------
(***************************************************************************)
(* Adding an account: the four steps of the page (NewAccountPage.tsx) and  *)
(* the requests it makes, one for the account and then one for each        *)
(* opening holding, in the order they were entered.                        *)
(*                                                                         *)
(* A draft stays editable while its requests are under way, any of them    *)
(* may fail or lose its answer, and categories and instruments are         *)
(* archived meanwhile.                                                     *)
(***************************************************************************)
EXTENDS Integers, Sequences

CONSTANTS
    Categories,
    Holds,        \* those offered for an account with holdings
    Liabilities,  \* those the server refuses for one
    Tradable,
    Nothing,      \* no category, no run
    MaxHoldings,  \* bound: holdings in a draft
    MaxClicks     \* bound: how often Create is pressed

NewAccountAssumption ==
    /\ Holds \subseteq Categories \ Liabilities
    /\ MaxHoldings \in Nat /\ MaxClicks \in Nat

VARIABLES
    archived, \* the categories and instruments that are archived
    known,    \* what of that the client has read
    step,     \* 0 to 3, or 4 once the page has moved to the account
    draft,    \* what is entered
    run,      \* the mutation under way
    accounts, \* the accounts that were opened, in order
    clicks    \* runs that were started

newAccountVars == <<archived, known, step, draft, run, accounts, clicks>>

Modes == {"balance", "positions"}
Holding == [instrument : Tradable, complete : BOOLEAN]
Draft == [mode : Modes, category : Categories \cup {Nothing}, opening : BOOLEAN,
          holdings : Seq(Holding)]
Account == [mode : Modes, holdings : Seq(Tradable)]
\* The draft as it was when Create was pressed, and the account opened for it.
Run == [draft : Draft, account : 0..MaxClicks]

\* Type invariant: the draft, its runs and the accounts opened keep their types.
WebTypeOK ==
    /\ archived \subseteq Categories \cup Tradable /\ known \subseteq archived
    /\ step \in 0..4
    /\ draft \in Draft /\ Len(draft.holdings) <= MaxHoldings
    /\ run \in Run \cup {Nothing}
    /\ accounts \in Seq(Account)
    /\ clicks \in 0..MaxClicks

NewAccountInit ==
    /\ archived = {} /\ known = {}
    /\ step = 0
    /\ draft = [mode |-> "balance", category |-> Nothing, opening |-> FALSE, holdings |-> <<>>]
    /\ run = Nothing /\ accounts = <<>> /\ clicks = 0

-----------------------------------------------------------------------------
\* The page.

usable == (IF draft.mode = "balance" THEN Categories ELSE Holds) \ known
instrumentList == Tradable \ known

\* Cash is optional beside holdings; every holding is complete or removed.
stepValid ==
    CASE step = 1 -> draft.category # Nothing
      [] step = 2 -> /\ draft.opening \/ draft.mode = "positions"
                     /\ \A k \in 1..Len(draft.holdings) : draft.holdings[k].complete
      [] OTHER    -> TRUE

Edit(d) ==
    /\ draft' = d /\ d # draft
    /\ UNCHANGED <<archived, known, step, run, accounts, clicks>>

\* Mutant: what the other mode does not have is kept.
ChooseModeOnly(m) == step = 0 /\ Edit([draft EXCEPT !.mode = m])

ChooseMode(m) ==
    step = 0 /\ Edit([draft EXCEPT !.mode = m, !.category = Nothing, !.holdings = <<>>])

ChooseCategory(c) == step = 1 /\ c \in usable /\ Edit([draft EXCEPT !.category = c])

Opening == step = 2 /\ Edit([draft EXCEPT !.opening = ~@])

\* Mutant: the button is there for an empty list, too.
AddHoldingOfNone(i) ==
    /\ step = 2 /\ draft.mode = "positions" /\ Len(draft.holdings) < MaxHoldings
    /\ LET first == IF instrumentList = {} THEN Nothing ELSE CHOOSE j \in instrumentList : TRUE
       IN Edit([draft EXCEPT !.holdings = Append(@, [instrument |-> first, complete |-> FALSE])])

\* A holding starts with the first instrument and is filled in after that.
AddHolding(i) ==
    /\ step = 2 /\ draft.mode = "positions"
    /\ i \in instrumentList /\ Len(draft.holdings) < MaxHoldings
    /\ Edit([draft EXCEPT !.holdings = Append(@, [instrument |-> i, complete |-> FALSE])])

UpdateHolding(k, i, complete) ==
    /\ step = 2 /\ draft.mode = "positions"
    /\ i \in instrumentList \cup {draft.holdings[k].instrument}
    /\ Edit([draft EXCEPT !.holdings[k] = [instrument |-> i, complete |-> complete]])

RemoveHolding(k) ==
    /\ step = 2 /\ draft.mode = "positions"
    /\ Edit([draft EXCEPT !.holdings =
               [j \in 1..(Len(@) - 1) |-> IF j < k THEN @[j] ELSE @[j + 1]]])

Continue ==
    /\ step < 3 /\ stepValid
    /\ step' = step + 1
    /\ UNCHANGED <<archived, known, draft, run, accounts, clicks>>

Back ==
    /\ step \in 1..3
    /\ step' = step - 1
    /\ UNCHANGED <<archived, known, draft, run, accounts, clicks>>

-----------------------------------------------------------------------------
\* The requests.

Create ==
    /\ step = 3 /\ run = Nothing /\ clicks < MaxClicks
    /\ run' = [draft |-> draft, account |-> 0]
    /\ clicks' = clicks + 1
    /\ UNCHANGED <<archived, known, step, draft, accounts>>

\* Every run has a key of its own, so that the server opens another account.
OpenAccount ==
    /\ step < 4 /\ run # Nothing /\ run.account = 0
    /\ run.draft.category \notin archived
    /\ run.draft.mode = "positions" => run.draft.category \notin Liabilities
    /\ accounts' = Append(accounts, [mode |-> run.draft.mode, holdings |-> <<>>])
    /\ run' = [run EXCEPT !.account = Len(accounts) + 1]
    /\ UNCHANGED <<archived, known, step, draft, clicks>>

\* Mutant: the holdings are read when they are sent.
PendingNow == draft.holdings

\* The holdings are those of the draft Create was pressed for.
Pending == run.draft.holdings

Sent == Len(accounts[run.account].holdings)

OpenHolding ==
    /\ step < 4 /\ run # Nothing /\ run.account # 0
    /\ Sent < Len(Pending)
    /\ Pending[Sent + 1].instrument \notin archived
    /\ accounts[run.account].mode = "positions"
    /\ accounts' = [accounts EXCEPT ![run.account].holdings =
                      Append(@, Pending[Sent + 1].instrument)]
    /\ UNCHANGED <<archived, known, step, draft, run, clicks>>

\* A request is refused, or its answer is lost.  What was done before stays.
Fail ==
    /\ step < 4 /\ run # Nothing
    /\ run' = Nothing
    /\ UNCHANGED <<archived, known, step, draft, accounts, clicks>>

\* The last answer takes the page to the account.
Done ==
    /\ step < 4 /\ run # Nothing /\ run.account # 0
    /\ Sent >= Len(Pending)
    /\ step' = 4
    /\ UNCHANGED <<archived, known, draft, run, accounts, clicks>>

Archive(x) ==
    /\ step < 4
    /\ archived' = archived \cup {x} /\ x \notin archived
    /\ UNCHANGED <<known, step, draft, run, accounts, clicks>>

Refetch ==
    /\ step < 4
    /\ known # archived
    /\ known' = archived
    /\ UNCHANGED <<archived, step, draft, run, accounts, clicks>>

Fill ==
    \/ \E m \in Modes : ChooseMode(m)
    \/ \E c \in Categories : ChooseCategory(c)
    \/ Opening
    \/ \E i \in Tradable : AddHolding(i)
    \/ \E k \in 1..Len(draft.holdings) :
          \/ RemoveHolding(k)
          \/ \E i \in Tradable, c \in BOOLEAN : UpdateHolding(k, i, c)

NewAccountNext ==
    \/ Fill \/ Continue \/ Back
    \/ Create \/ OpenAccount \/ OpenHolding \/ Fail \/ Done
    \/ \E x \in Categories \cup Tradable : Archive(x)
    \/ Refetch

NewAccountSpec == NewAccountInit /\ [][NewAccountNext]_newAccountVars

-----------------------------------------------------------------------------
(* The page moves to an account that has exactly the holdings that were    *)
(* reviewed when it was asked for, however the draft was changed since and *)
(* whichever requests failed before (NewAccountPage.tsx 151-188).          *)
AccountAsReviewed ==
    step = 4 => /\ Len(accounts[run.account].holdings) = Len(run.draft.holdings)
                /\ \A k \in 1..Len(run.draft.holdings) :
                      accounts[run.account].holdings[k] = run.draft.holdings[k].instrument

(* What is reviewed can be opened: the category suits the way the account  *)
(* is tracked, no holding is unfinished, and an account with one running   *)
(* value has no holdings, although a person goes back and forth between    *)
(* the steps (NewAccountPage.tsx 130-150, 213-238).                        *)
ReviewedIsWhole ==
    step = 3 => /\ draft.mode = "positions" => draft.category \in Holds
                /\ draft.mode = "balance" => draft.holdings = <<>>
                /\ \A k \in 1..Len(draft.holdings) : draft.holdings[k].complete

(* An account is opened as it was reviewed (NewAccountPage.tsx).           *)
OpenedAsReviewed == ReviewedIsWhole /\ AccountAsReviewed

=============================================================================
