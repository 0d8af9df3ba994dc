----------------------------- MODULE WebAccounts -----------------------------
(***************************************************************************)
(* The list of the accounts (accounts/AccountsPage.tsx, model.ts and       *)
(* AccountViews.tsx), with the two answers of the server it joins: the     *)
(* accounts with their values (chart_analytics.go) and their summaries     *)
(* (insights_reads.go).                                                    *)
(*                                                                         *)
(* A value may lack a price or an exchange rate.  The list says which, and *)
(* links to the page where it is entered; the two answers it concludes     *)
(* this from are read by requests of their own.                            *)
(*                                                                         *)
(* A copy of an answer is written down as the data it was made of.  An     *)
(* account that holds instruments holds one.                               *)
(***************************************************************************)
EXTENDS Integers

CONSTANTS
    Accounts,   \* accounts of the user
    CurrencyOf, \* the currency of each
    Base,       \* the base currency
    Holds,      \* the accounts tracked by position
    QuoteOf,    \* the currency of what each of them holds
    Liabilities,\* the liabilities
    Amounts,    \* what an account may be worth
    Rate,       \* what a unit of another currency is worth in the base currency
    Nothing,    \* no copy, no figure, no reason
    MaxChanges  \* bound: changes of the data

Currencies == {Base} \cup {CurrencyOf[a] : a \in Accounts} \cup {QuoteOf[a] : a \in Holds}
Pairs      == {{c, d} : c, d \in Currencies} \ {{c} : c \in Currencies}

\* What the summaries say of an account.
SummaryType == [prices : SUBSET ({"price"} \X Accounts), currencies : SUBSET Currencies,
                freshness : {"not applicable", "missing", "stale", "fresh"}, complete : BOOLEAN]

AccountsAssumption ==
    /\ Holds \subseteq Accounts /\ Liabilities \subseteq Accounts \ Holds
    /\ Amounts \subseteq Nat /\ Rate \in Nat /\ MaxChanges \in Nat
    /\ Nothing \notin Nat /\ Nothing \notin SummaryType

VARIABLES
    data,      \* the accounts and the exchange rates of the server
    list,      \* the client's copy of the active accounts
    summaries, \* its copy of the summaries
    archived,  \* its copy of the archived accounts
    view,      \* what the address says is shown
    changes    \* changes of the data

accountsVars == <<data, list, summaries, archived, view, changes>>

\* What the account was worth a month ago and is worth now, without what has no
\* price; whether its instrument has a price, or it has a valuation itself, and
\* whether that is too old.
AccountType == [before : Amounts, value : Amounts, priced : BOOLEAN, old : BOOLEAN,
                active : BOOLEAN]

\* The rates are the pairs that have one.
World  == [accounts : [Accounts -> AccountType], rates : SUBSET Pairs]
States == {"complete", "stale", "incomplete"}

\* Type invariant: the server's accounts and the page's copies of them keep their types.
WebTypeOK ==
    /\ data \in World
    /\ \A copy \in {list, summaries, archived} : copy = Nothing \/ copy \in World
    /\ view \in [group : {"currency", "kind", "mode", "state"}, show : {"active", "archived"}]
    /\ changes \in 0..MaxChanges

-----------------------------------------------------------------------------
\* The server.  A rate serves a pair in both directions and no other pair.

Convertible(w, c, d) == c = d \/ {c, d} \in w.rates

\* What keeps an account from being valued in its own currency.
chartAccountValue(w, a) ==
    IF a \notin Holds THEN {}
    ELSE IF ~w.accounts[a].priced THEN {<<"price", a>>}
    ELSE IF ~Convertible(w, QuoteOf[a], CurrencyOf[a]) THEN {<<"currency", QuoteOf[a]>>}
    ELSE {}

\* Nothing at all is worth nothing in every currency.
InBase(w, a, amount) ==
    IF amount = 0 \/ CurrencyOf[a] = Base THEN amount
    ELSE IF Convertible(w, CurrencyOf[a], Base) THEN amount * Rate
    ELSE Nothing

\* The value and the change of an account in the list are both converted.
chartAccountListValues(w, a) ==
    LET value  == IF chartAccountValue(w, a) # {} THEN Nothing
                  ELSE InBase(w, a, w.accounts[a].value)
        before == InBase(w, a, w.accounts[a].before)
    IN [value |-> value,
        change |-> IF value = Nothing \/ before = Nothing THEN Nothing ELSE value - before]

\* A currency is missing if what is held cannot be converted from it, or the
\* account cannot be converted from it into the base currency.
accountSummary(w, a) ==
    LET missing   == chartAccountValue(w, a)
        baseFound == IF missing = {} THEN InBase(w, a, w.accounts[a].value) # Nothing
                     ELSE Convertible(w, CurrencyOf[a], Base)
    IN [prices     |-> {m \in missing : m[1] = "price"},
        currencies |-> {m[2] : m \in {n \in missing : n[1] = "currency"}}
                       \cup (IF baseFound THEN {} ELSE {CurrencyOf[a]}),
        freshness  |-> IF w.accounts[a].priced THEN IF w.accounts[a].old THEN "stale" ELSE "fresh"
                       ELSE IF a \in Holds THEN "missing" ELSE "not applicable",
        complete   |-> missing = {} /\ baseFound]

\* What is in fact missing: prices, and rates of pairs.
Missing(w, a) ==
    LET own == chartAccountValue(w, a)
    IN {m \in own : m[1] = "price"}
       \cup {<<"rate", {m[2], CurrencyOf[a]}>> : m \in {n \in own : n[1] = "currency"}}
       \cup (IF /\ ~Convertible(w, CurrencyOf[a], Base)
                /\ (own # {} \/ w.accounts[a].value # 0)
             THEN {<<"rate", {CurrencyOf[a], Base}>>} ELSE {})

-----------------------------------------------------------------------------
\* The client.

Listed == IF list = Nothing THEN {} ELSE {a \in Accounts : list.accounts[a].active}

\* An account and its summary, if the summaries were read.
joinAccounts(a) ==
    [account |-> chartAccountListValues(list, a),
     summary |-> IF summaries = Nothing THEN Nothing ELSE accountSummary(summaries, a)]

\* An account that lacks something is incomplete, whatever the age of its price.
dataState(item) ==
    IF item.account.value = Nothing THEN "incomplete"
    ELSE IF item.summary = Nothing THEN "complete"
    ELSE IF ~item.summary.complete \/ item.summary.freshness = "missing" THEN "incomplete"
    ELSE IF item.summary.freshness = "stale" THEN "stale" ELSE "complete"

\* Mutant: an account in another currency always lacks a rate.
missingValueReasonByCurrency(item, a) ==
    LET currencies == IF item.summary = Nothing THEN {} ELSE item.summary.currencies
        prices     == IF item.summary = Nothing THEN {} ELSE item.summary.prices
    IN CASE item.account.value # Nothing -> {}
         [] OTHER ->
              IF CurrencyOf[a] # Base THEN {<<"rate", CurrencyOf[a]>>}
              ELSE IF currencies \ {Base} # {}
                   THEN {<<"rate", c>> : c \in currencies \ {Base}}
              ELSE IF prices # {} THEN {<<"price", a>>}
              ELSE {<<"unknown">>}

\* Why the account has no value, as far as the summary tells: the candidates for
\* the first currency that is missing.  Without a summary, an account in another
\* currency is thought to lack a rate.
missingValueReason(item, a) ==
    LET currencies == IF item.summary = Nothing THEN {} ELSE item.summary.currencies
        prices     == IF item.summary = Nothing THEN {} ELSE item.summary.prices
    IN CASE item.account.value # Nothing -> {}
         [] OTHER ->
              IF CurrencyOf[a] \in currencies /\ CurrencyOf[a] # Base
                  THEN {<<"rate", CurrencyOf[a]>>}
              ELSE IF currencies \ {Base} # {}
                   THEN {<<"rate", c>> : c \in currencies \ {Base}}
              ELSE IF prices # {} THEN {<<"price", a>>}
              ELSE IF CurrencyOf[a] # Base THEN {<<"rate", CurrencyOf[a]>>}
              ELSE {<<"unknown">>}

\* The links of a reason: a rate into the base currency, the price of what the
\* summary says has none.
rateFix(reason) == <<"rate", {reason[2], Base}>>

\* In place of a value in the base currency: what is missing, with a link if it
\* is a rate.
BaseValue(item, a) == {rateFix(r) : r \in {s \in missingValueReason(item, a) : s[1] = "rate"}}

\* Beside the value of an account that is not complete: a link for a price.
MissingPriceFix(item) ==
    IF item.summary = Nothing THEN {}
    ELSE IF item.summary.complete THEN {} ELSE item.summary.prices

\* A card: the change, with the account's own currency written beside it, and
\* the links to what is missing.  A row of the table says as well how complete
\* the value is.
Card(a) ==
    LET item == joinAccounts(a)
    IN [change |-> item.account.change,
        fixes  |-> BaseValue(item, a) \cup MissingPriceFix(item)]

Row(a) == [state  |-> dataState(joinAccounts(a)),
           change |-> Card(a).change,
           fixes  |-> Card(a).fixes]

\* The narrow row says what kind of thing is missing, without a link.
DenseRow(a) ==
    LET item == joinAccounts(a)
    IN IF dataState(item) # "incomplete" THEN {}
       ELSE {reason[1] : reason \in missingValueReason(item, a)}

\* The groups of the list, and whether each is owed as a whole.
groupItems(group) ==
    LET key(a) == CASE group = "currency" -> CurrencyOf[a]
                    [] group = "kind"     -> a \in Liabilities
                    [] group = "mode"     -> a \in Holds
                    [] group = "state"    -> Row(a).state
    IN {[of |-> key(a), accounts |-> {b \in Listed : key(b) = key(a)},
         owed |-> {b \in Listed : key(b) = key(a)} \subseteq Liabilities] : a \in Listed}

\* The notice above the list, when a value is incomplete or a price old.
Noticed == {a \in Listed : Row(a).state # "complete"}

-----------------------------------------------------------------------------
\* The address keeps the choices; a choice replaces it.
SetParam(v) == view' = v /\ UNCHANGED <<data, list, summaries, archived, changes>>

Group == /\ view.show = "active" /\ Listed # {}
         /\ \E g \in {"currency", "kind", "mode", "state"} : SetParam([view EXCEPT !.group = g])

\* The notice offers to group by what is missing.
GroupByState == /\ view.show = "active" /\ view.group # "state" /\ Noticed # {}
                /\ SetParam([view EXCEPT !.group = "state"])

Show == list # Nothing /\ \E s \in {"active", "archived"} : SetParam([view EXCEPT !.show = s])

Write(w) == /\ changes < MaxChanges /\ changes' = changes + 1 /\ data' = w
            /\ UNCHANGED <<list, summaries, archived, view>>

\* A link of a row is followed and what it asks for is entered.
FollowFix ==
    /\ view.show = "active"
    /\ \E a \in Listed : \E fix \in Row(a).fixes :
           \/ fix[1] = "rate" /\ Write([data EXCEPT !.rates = @ \cup {fix[2]}])
           \/ fix[1] = "price" /\ Write([data EXCEPT !.accounts[fix[2]].priced = TRUE,
                                                     !.accounts[fix[2]].old = FALSE])

\* An archived account is restored from the list of those.
Restore == /\ view.show = "archived" /\ archived # Nothing
           /\ \E a \in Accounts : /\ ~archived.accounts[a].active
                                  /\ Write([data EXCEPT !.accounts[a].active = TRUE])

\* Elsewhere a row or a valuation is recorded, a price, a valuation or a rate
\* deleted, an account archived, and prices and valuations grow old.
Elsewhere ==
    \E a \in Accounts :
        \/ \E v \in Amounts : Write([data EXCEPT !.accounts[a].value = v])
        \/ Write([data EXCEPT !.accounts[a].active = FALSE])
        \/ a \notin Holds /\ \E v \in Amounts :
               Write([data EXCEPT !.accounts[a].value = v, !.accounts[a].priced = TRUE,
                                  !.accounts[a].old = FALSE])
        \/ Write([data EXCEPT !.accounts[a].priced = FALSE])
        \/ Write([data EXCEPT !.accounts[a].old = TRUE])
        \/ \E p \in data.rates : Write([data EXCEPT !.rates = @ \ {p}])

\* Each answer is read by a request of its own.
ReadList      == list' = data /\ UNCHANGED <<data, summaries, archived, view, changes>>
ReadSummaries == summaries' = data /\ UNCHANGED <<data, list, archived, view, changes>>
ReadArchived  == archived' = data /\ UNCHANGED <<data, list, summaries, view, changes>>

AccountsInit ==
    /\ data \in {w \in World : \A a \in Accounts : /\ ~w.accounts[a].old /\ w.accounts[a].active
                                                   /\ a \in Holds \/ w.accounts[a].priced}
    /\ list = Nothing /\ summaries = Nothing /\ archived = Nothing
    /\ view = [group |-> "currency", show |-> "active"] /\ changes = 0

AccountsNext == \/ Group \/ GroupByState \/ Show \/ FollowFix \/ Restore \/ Elsewhere
                \/ ReadList \/ ReadSummaries \/ ReadArchived

AccountsSpec == AccountsInit /\ [][AccountsNext]_accountsVars

-----------------------------------------------------------------------------
\* Once both answers are of the same data, an account is shown as incomplete if
\* and only if something is missing, and every link of its row leads to something
\* that is: a price that is missing is not taken for a rate, and the rate that is
\* offered is the one the server looks for.  This is said of accounts whose
\* instruments are quoted in their own currency or in the base currency: with a
\* third one the server looks for a rate between that and the account's, and the
\* link offers one into the base currency.
MissingIsNamed ==
    (list # Nothing /\ list = summaries)
    => \A a \in Listed :
           (a \in Holds => QuoteOf[a] \in {CurrencyOf[a], Base})
           => /\ Row(a).fixes \subseteq Missing(list, a)
              /\ (Row(a).state = "incomplete") <=> (Missing(list, a) # {})
              /\ Missing(list, a) # {} => Row(a).fixes # {}
              /\ DenseRow(a) \subseteq {m[1] : m \in Missing(list, a)}
=============================================================================
