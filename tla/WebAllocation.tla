---------------------------- MODULE WebAllocation ----------------------------
(***************************************************************************)
(* The allocation of the assets: the panel of the home page                *)
(* (AllocationPanel.tsx), the page it leads to (AllocationPage.tsx), and   *)
(* the report of the server both are drawn from (chart_analytics.go).      *)
(*                                                                         *)
(* The report groups accounts and gives the group a name and a value; the  *)
(* page lists the accounts of a group by comparing names with the accounts *)
(* it read in a request of its own.  What is grouped, left out, opened and *)
(* scoped is kept in the address, and some changes replace the address     *)
(* while others add to the history.                                        *)
(*                                                                         *)
(* A copy of an answer is written down as the accounts it was made of; a   *)
(* name is a pair of the grouping and what is named.                       *)
(***************************************************************************)
EXTENDS Integers, Sequences, FiniteSets, Functions

CONSTANTS
    Accounts,     \* accounts of the user
    Worth,        \* what each is worth in the base currency, cash left aside
    Cash,         \* the cash of each account that holds instruments
    CurrencyOf,   \* the currency of each
    Holds,        \* those tracked by position
    Categories,   \* categories of accounts
    Debts,        \* those of liabilities
    Investible,   \* those marked investible
    Institutions, \* institutions of the user
    Nothing,      \* no institution, no group opened, no account opened, no copy
    MaxChanges,   \* bound: changes made to accounts
    MaxBack       \* bound: pages in the history

AllocationAssumption ==
    /\ IsFiniteSet(Accounts)
    /\ Worth \in [Accounts -> Nat] /\ Cash \in [Accounts -> Nat]
    /\ Holds \subseteq Accounts
    /\ Debts \subseteq Categories /\ Investible \subseteq Categories \ Debts
    /\ MaxChanges \in Nat /\ MaxBack \in Nat

VARIABLES
    accounts, \* the accounts of the server
    report,   \* the client's copy of the allocation report
    summary,  \* its copy of the report with the totals
    list,     \* its copy of the list of accounts
    page,     \* what is on the screen
    history,  \* the pages before it
    changes   \* changes made to accounts

allocationVars == <<accounts, report, summary, list, page, history, changes>>

Groupings == {"category", "institution", "currency", "instrument"}
Scopes    == {"total", "investible"}

\* The institution is Nothing for none.  "whole" is false when a rate or a price
\* is missing.
AccountType == [category : Categories, institution : Institutions \cup {Nothing},
                included : BOOLEAN, whole : BOOLEAN, active : BOOLEAN]
Copies == [Accounts -> AccountType]

\* How the two sides call an account that has no institution.
ServerNone == <<"institution", "Unspecified">>
ClientNone == <<"institution", "No institution">>

Names == {<<"category", c>> : c \in Categories} \cup {<<"institution", i>> : i \in Institutions}
         \cup {<<"currency", CurrencyOf[a]>> : a \in Accounts}
         \cup {<<"instrument", a>> : a \in Holds} \cup {ServerNone}

Home      == [at |-> "home", by |-> "category", scope |-> "total", excluded |-> {},
              drill |-> Nothing, account |-> Nothing]
Elsewhere == [Home EXCEPT !.at = "elsewhere"]
Pages     == [at : {"home", "elsewhere", "allocation"}, by : Groupings, scope : Scopes,
              excluded : SUBSET Names, drill : Names \cup {Nothing},
              account : Holds \cup {Nothing}]

\* Type invariant: the address, the page's copies and the server's accounts keep their types.
WebTypeOK ==
    /\ accounts \in Copies
    /\ \A copy \in {report, summary, list} : copy = Nothing \/ copy \in Copies
    /\ page \in Pages /\ \A i \in DOMAIN history : history[i] \in Pages
    /\ Len(history) <= MaxBack /\ changes \in 0..MaxChanges

-----------------------------------------------------------------------------
\* The server.

\* Assets in the net worth whose value is known.
Valued(c) == {a \in Accounts : /\ c[a].active /\ c[a].included /\ c[a].whole
                               /\ c[a].category \notin Debts}

Value == [a \in Accounts |-> Worth[a] + (IF a \in Holds THEN Cash[a] ELSE 0)]

\* The value of each group.  Each account that holds instruments holds one, and
\* its cash belongs to no group of that grouping.
chartAllocations(c, by, scope) ==
    LET of == {a \in Valued(c) : /\ scope = "investible" => c[a].category \in Investible
                                 /\ by = "instrument" => a \in Holds}
        name(a) == CASE by = "category" -> <<by, c[a].category>>
                     [] by = "institution" ->
                          IF c[a].institution = Nothing THEN ServerNone
                          ELSE <<by, c[a].institution>>
                     [] by = "currency"   -> <<by, CurrencyOf[a]>>
                     [] by = "instrument" -> <<by, a>>
        value == IF by = "instrument" THEN Worth ELSE Value
    IN [n \in {name(a) : a \in of} |-> SumFunctionOnSet(value, {a \in of : name(a) = n})]

\* The totals of the summary.
chartPointAt(c) ==
    [total      |-> SumFunctionOnSet(Value, Valued(c)),
     investible |-> SumFunctionOnSet(Value, {a \in Valued(c) : c[a].category \in Investible})]

-----------------------------------------------------------------------------
\* What the page makes of its copies.

\* The groups with their values.  Only categories have a scope.
itemsFor(p) == chartAllocations(report, p.by, p.scope)

\* Mutant: every account that bears the name is listed.
accountMatchesAny(a, p) ==
    CASE p.by = "category"    -> <<p.by, list[a].category>> = p.drill
      [] p.by = "institution" -> p.drill = IF list[a].institution = Nothing THEN ClientNone
                                           ELSE <<p.by, list[a].institution>>
      [] p.by = "currency"    -> <<p.by, CurrencyOf[a]>> = p.drill
      [] OTHER                -> FALSE

\* Whether an account of the list belongs to the opened group.
accountMatches(a, p) ==
    /\ list[a].category \notin Debts /\ list[a].included
    /\ CASE p.by = "category"    -> <<p.by, list[a].category>> = p.drill
         [] p.by = "institution" -> p.drill = IF list[a].institution = Nothing THEN ClientNone
                                              ELSE <<p.by, list[a].institution>>
         [] p.by = "currency"    -> <<p.by, CurrencyOf[a]>> = p.drill
         [] OTHER                -> FALSE

\* The page needs the report and the list, and shows one of three levels.
Level(p) ==
    IF p.at # "allocation" \/ report = Nothing \/ list = Nothing THEN "none"
    ELSE IF \A a \in Accounts : ~list[a].active THEN "empty"
    ELSE IF p.account # Nothing THEN "holdings"
    ELSE IF p.drill # Nothing THEN "accounts"
    ELSE "overview"

\* The overview draws the groups that are not left out; the total in the middle
\* comes from the summary, unless a group is left out or the grouping has none.
Overview(p) ==
    LET items == itemsFor(p) IN
    [drawn  |-> DOMAIN items \ p.excluded,
     listed |-> DOMAIN items,
     center |-> IF p.by = "instrument" \/ summary = Nothing
                   \/ DOMAIN items \cap p.excluded # {} THEN Nothing
                ELSE chartPointAt(summary)[p.scope]]

\* Below an overview: how much of all assets is investible.
LiquiditySection(p) ==
    IF p.drill # Nothing \/ summary = Nothing THEN Nothing
    ELSE [part |-> chartPointAt(summary).investible, whole |-> chartPointAt(summary).total]

\* The opened group: its value, if it is still a group, and its accounts.
AccountsView(p) ==
    [value    |-> IF p.drill \in DOMAIN itemsFor(p) THEN itemsFor(p)[p.drill] ELSE Nothing,
     accounts |-> {a \in Accounts : list[a].active /\ accountMatches(a, p)}]

-----------------------------------------------------------------------------
\* The address: some changes replace the page, others leave it in the history.

Replace(p) == page' = p /\ UNCHANGED <<accounts, report, summary, list, history, changes>>

Push(p) == /\ Len(history) < MaxBack
           /\ page' = p /\ history' = Append(history, page)
           /\ UNCHANGED <<accounts, report, summary, list, changes>>

\* The panel of the home page opens a category.  Its figures are the report's.
DrillFromHome == /\ page.at = "home" /\ report # Nothing
                 /\ \E n \in DOMAIN chartAllocations(report, "category", "total") :
                        Push([Home EXCEPT !.at = "allocation", !.drill = n])

Explore == page.at = "home" /\ Push([Home EXCEPT !.at = "allocation"])

\* A new grouping or scope starts from its overview, with nothing left out.
SetBy == /\ Level(page) \notin {"none", "empty"}
         /\ \E by \in Groupings :
                Replace([page EXCEPT !.by = by, !.excluded = {}, !.drill = Nothing,
                                     !.account = Nothing,
                                     !.scope = IF by = "category" THEN @ ELSE "total"])

SetScope == /\ Level(page) \notin {"none", "empty"} /\ page.by = "category"
            /\ \E scope \in Scopes :
                   Replace([page EXCEPT !.scope = scope, !.excluded = {}, !.drill = Nothing,
                                        !.account = Nothing])

ToggleExcluded ==
    /\ Level(page) = "overview"
    /\ \E n \in Overview(page).listed :
           Replace([page EXCEPT !.excluded = IF n \in @ THEN @ \ {n} ELSE @ \cup {n}])

ClearExcluded == /\ Level(page) = "overview" /\ page.excluded # {}
                 /\ Replace([page EXCEPT !.excluded = {}])

\* A group that is drawn can be opened, but not an instrument.
SetDrill == /\ Level(page) = "overview" /\ page.by # "instrument"
            /\ \E n \in Overview(page).drawn : Push([page EXCEPT !.drill = n])

\* An account tracked by position is opened on this page, another on its own.
SetAccount ==
    /\ Level(page) = "accounts"
    /\ \E a \in AccountsView(page).accounts :
           Push(IF a \in Holds THEN [page EXCEPT !.account = a] ELSE Elsewhere)

\* The way back up, which is a way forward in the history.
Crumbs == \/ /\ Level(page) \in {"accounts", "holdings"}
             /\ Push([page EXCEPT !.drill = Nothing, !.account = Nothing])
          \/ Level(page) = "holdings" /\ Push([page EXCEPT !.account = Nothing])

OpenAccount == Level(page) = "holdings" /\ Push(Elsewhere)

Back == /\ history # <<>>
        /\ page' = history[Len(history)] /\ history' = SubSeq(history, 1, Len(history) - 1)
        /\ UNCHANGED <<accounts, report, summary, list, changes>>

-----------------------------------------------------------------------------
\* The account is edited, here or elsewhere.
Change == /\ changes < MaxChanges /\ changes' = changes + 1
          /\ \E a \in Accounts :
                 \/ \E c \in Categories : accounts' = [accounts EXCEPT ![a].category = c]
                 \/ \E i \in Institutions \cup {Nothing} :
                        accounts' = [accounts EXCEPT ![a].institution = i]
                 \/ accounts' = [accounts EXCEPT ![a].included = ~@]
                 \/ accounts' = [accounts EXCEPT ![a].active = ~@]
                 \/ accounts' = [accounts EXCEPT ![a].whole = ~@]
          /\ UNCHANGED <<report, summary, list, page, history>>

\* Each answer is read by a request of its own.
ReadReport == /\ report' = accounts
              /\ UNCHANGED <<accounts, summary, list, page, history, changes>>

ReadSummary == /\ summary' = accounts
               /\ UNCHANGED <<accounts, report, list, page, history, changes>>

ReadList == /\ list' = accounts
            /\ UNCHANGED <<accounts, report, summary, page, history, changes>>

AllocationInit ==
    /\ accounts \in {c \in Copies : \A a \in Accounts : c[a].active /\ c[a].included /\ c[a].whole}
    /\ report = Nothing /\ summary = Nothing /\ list = Nothing
    /\ page = Home /\ history = <<>> /\ changes = 0

AllocationNext ==
    \/ DrillFromHome \/ Explore \/ SetBy \/ SetScope \/ ToggleExcluded \/ ClearExcluded
    \/ SetDrill \/ SetAccount \/ Crumbs \/ OpenAccount \/ Back
    \/ Change \/ ReadReport \/ ReadSummary \/ ReadList

AllocationSpec == AllocationInit /\ [][AllocationNext]_allocationVars

-----------------------------------------------------------------------------
\* The accounts of an opened group are those its value is made of, once the page
\* has the report and the list of the same accounts: the value beside the name
\* is the sum of the values below it.  An account without an institution is the
\* exception: the server calls its group Unspecified, the page compares with
\* No institution, and the group opens on an empty list; so is an institution that
\* bears one of these names.
GroupMatchesAccounts ==
    (/\ Level(page) = "accounts" /\ report = list
     /\ page.drill \notin {ServerNone, ClientNone})
    => LET view  == AccountsView(page)
           known == [a \in Accounts |-> IF list[a].whole THEN Value[a] ELSE 0]
       IN view.value # Nothing => view.value = SumFunctionOnSet(known, view.accounts)

\* What is left out of a picture is a group of that picture's grouping, on every
\* page the reader can go back to; so the notice names what the chart leaves out.
ExcludedOfGrouping ==
    \A p \in {page} \cup {history[i] : i \in DOMAIN history} :
        \A n \in p.excluded : n[1] = p.by

\* The total in the middle of the chart is the sum of the groups around it, and
\* the bar below it has the same parts, when both reports are of the same accounts.
TotalIsSum ==
    (Level(page) = "overview" /\ report = summary)
    => LET sum == SumFunction(itemsFor(page))
       IN /\ Overview(page).center # Nothing => Overview(page).center = sum
          /\ page.by # "instrument" =>
                 sum = IF page.scope = "total" THEN LiquiditySection(page).whole
                       ELSE LiquiditySection(page).part

\* The groups of the allocation are the sums of the accounts they open on, and add
\* up to the totals beside them.
AllocationAddsUp == GroupMatchesAccounts /\ ExcludedOfGrouping /\ TotalIsSum
=============================================================================
