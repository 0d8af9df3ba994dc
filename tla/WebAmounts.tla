----------------------------- MODULE WebAmounts -----------------------------
(***************************************************************************)
(* Amounts of money in the forms of the web client: typed under one        *)
(* currency, perhaps left there while the account or the currency is       *)
(* changed or the field is hidden, checked, converted to minor units       *)
(* (lib/money.ts), sent, and read by the server (domain/money.go,          *)
(* goal_mutations.go).                                                     *)
(*                                                                         *)
(* Currencies have 0, 2 or 3 decimal places, so an amount is counted in    *)
(* thousandths.  What is typed matters by its value, by the places it is   *)
(* written with, and by whether it is a number.  These fields take no      *)
(* sign; those that do (manual adjustments) are left out.                  *)
(***************************************************************************)
EXTENDS Integers

CONSTANTS
    Currencies,   \* those that are used, of JPY, KES and KWD
    Thousandths,  \* the values that can be typed
    Nothing,      \* no amount, no request, nothing recorded
    MaxTries      \* bound: submissions

AmountsAssumption ==
    /\ Currencies \subseteq {"JPY", "KES", "KWD"}
    /\ Thousandths \subseteq Nat /\ MaxTries \in Nat
    /\ Nothing \notin Nat
    /\ Nothing \notin [kind : {"number", "empty", "broken"}, value : Nat, places : Nat]

VARIABLES
    form,      \* the form
    currency,  \* the currency next to each of its two fields
    linked,    \* the goal has a linked account
    text,      \* what is typed in each field
    request,   \* the request under way
    recorded,  \* what the server has recorded last, and for which request
    said,      \* what the form says: nothing, a wrong field, a failure, an amount
    submits

amountVars == <<form, currency, linked, text, request, recorded, said, submits>>

Fields == {"first", "second"}

\* Decimal places, and the minor unit in thousandths.
minorExponent(c) == CASE c = "JPY" -> 0 [] c = "KES" -> 2 [] c = "KWD" -> 3
MinorUnit(c)     == CASE c = "JPY" -> 1000 [] c = "KES" -> 10 [] c = "KWD" -> 1

\* "broken" is a point with no digit after it, which may be typed on the way.
Written(t) == \/ t.places = 0 /\ t.value % 1000 = 0
              \/ t.places = 2 /\ t.value % 10 = 0
              \/ t.places = 3
Texts == {t \in [kind : {"number"}, value : Thousandths, places : {0, 2, 3}] : Written(t)}
         \cup [kind : {"empty", "broken"}, value : {0}, places : {0}]

\* A rule: may it be empty, may it be zero, does the form check it at all.
Rule == [empty : BOOLEAN, zero : BOOLEAN, checked : BOOLEAN]

amountRule(allowZero)  == [empty |-> FALSE, zero |-> allowZero, checked |-> TRUE]
amountIssue(allowZero) == [empty |-> allowZero, zero |-> allowZero, checked |-> TRUE]
amountError(allowEmpty) == [empty |-> allowEmpty, zero |-> TRUE, checked |-> TRUE]
Unchecked == [empty |-> TRUE, zero |-> TRUE, checked |-> FALSE]

\* second: the field shown only sometimes.  sends: minor units, or a decimal in
\* major units.  toast: the notice of success names the amount.
FormType == [first : Rule, second : {"none", "received", "current"}, rule : Rule,
             sends : {"minor", "major"}, toast : BOOLEAN]

Transaction == [first |-> amountRule(FALSE), second |-> "none", rule |-> Unchecked,
                sends |-> "minor", toast |-> TRUE]
Valuation   == [Transaction EXCEPT !.first = amountRule(TRUE)]
Transfer    == [Transaction EXCEPT !.second = "received", !.rule = amountRule(FALSE)]
TradeFee    == [first |-> Unchecked, second |-> "none", rule |-> Unchecked,
                sends |-> "major", toast |-> FALSE]
NewGoal     == [TradeFee EXCEPT !.first = amountRule(FALSE), !.second = "current"]
EditGoal    == [NewGoal EXCEPT !.first = amountIssue(FALSE), !.rule = amountIssue(TRUE)]
NewAccount(holdings) ==
    [Transaction EXCEPT !.first = amountError(holdings), !.toast = FALSE]

AmountForms == {Transaction, Valuation, Transfer, TradeFee, NewGoal, EditGoal,
                NewAccount(TRUE), NewAccount(FALSE)}

Shown(f) == \/ f = "first"
            \/ form.second = "received" /\ currency["first"] # currency["second"]
            \/ form.second = "current" /\ ~linked

RuleOf(f) == IF f = "first" THEN form.first ELSE form.rule

-----------------------------------------------------------------------------
(* lib/money.ts *)

\* Mutant: places the currency does not have are cut off.
decimalToMinorCut(t, c) == IF t.kind # "number" THEN Nothing ELSE t.value \div MinorUnit(c)

\* Fails on what is no number, and on digits the currency has no place for;
\* zeros there are none.
decimalToMinor(t, c) ==
    IF t.kind # "number" \/ t.value % MinorUnit(c) # 0 THEN Nothing ELSE t.value \div MinorUnit(c)

minorToDecimal(m, c) ==
    [kind |-> "number", value |-> m * MinorUnit(c), places |-> minorExponent(c)]

\* sanitizeAmountInput: no more places than the currency has.
Typable(t, c) == IF t.kind = "broken" THEN minorExponent(c) > 0 ELSE t.places <= minorExponent(c)

Passes(t, c, rule) ==
    \/ ~rule.checked
    \/ t.kind = "empty" /\ rule.empty
    \/ decimalToMinor(t, c) # Nothing /\ (decimalToMinor(t, c) > 0 \/ rule.zero)

\* An empty field sends nothing, and in these forms that is zero.
Sent(f) ==
    IF ~Shown(f) \/ text[f].kind = "empty" THEN Nothing
    ELSE IF form.sends = "minor" THEN decimalToMinor(text[f], currency[f])
         ELSE minorToDecimal(decimalToMinor(text[f], currency[f]), currency[f])

\* The conversion fails where the request is made.
Throws == \E f \in Fields : /\ Shown(f) /\ text[f].kind # "empty"
                            /\ decimalToMinor(text[f], currency[f]) = Nothing

-----------------------------------------------------------------------------
AmountsInit ==
    /\ form \in AmountForms
    /\ currency \in {c \in [Fields -> Currencies] :
                        form.second = "received" \/ c["first"] = c["second"]}
    /\ linked \in BOOLEAN /\ (form.second # "current" => ~linked)
    /\ text = [f \in Fields |-> [kind |-> "empty", value |-> 0, places |-> 0]]
    /\ request = Nothing /\ recorded = Nothing /\ submits = 0
    /\ said = [what |-> "nothing", minor |-> 0, currency |-> currency["first"]]

\* A success closes the form.
Open == said.what \notin {"done", "amount"}

Type(f, t) ==
    /\ Open /\ Shown(f) /\ Typable(t, currency[f])
    /\ text' = [text EXCEPT ![f] = t]
    /\ UNCHANGED <<form, currency, linked, request, recorded, said, submits>>

\* Another account, or another currency: what is typed stays.
Choose(f, c) ==
    /\ Open
    /\ currency' = IF form.second = "received" THEN [currency EXCEPT ![f] = c]
                   ELSE [g \in Fields |-> c]
    /\ UNCHANGED <<form, linked, text, request, recorded, said, submits>>

Link ==
    /\ Open /\ form.second = "current" /\ linked' = ~linked
    /\ UNCHANGED <<form, currency, text, request, recorded, said, submits>>

Says(what, minor) == said' = [what |-> what, minor |-> minor, currency |-> currency["first"]]

Submit ==
    /\ Open /\ request = Nothing /\ submits < MaxTries /\ submits' = submits + 1
    /\ IF \A f \in Fields : Shown(f) => Passes(text[f], currency[f], RuleOf(f))
       THEN IF Throws THEN Says("failed", 0) /\ UNCHANGED request
            ELSE /\ request' = [number |-> submits, amount |-> [f \in Fields |-> Sent(f)],
                                currency |-> currency,
                                shown |-> [f \in Fields |-> IF Shown(f) THEN text[f] ELSE Nothing]]
                 /\ Says("nothing", 0)
       ELSE Says("field", 0) /\ UNCHANGED request
    /\ UNCHANGED <<form, currency, linked, text, recorded>>

-----------------------------------------------------------------------------
(* The server *)

\* parseGoalMoneyMinor, ParseDecimalAmount: no more places than the currency has.
Read(amount, c) ==
    IF amount = Nothing \/ form.sends = "minor" THEN amount
    ELSE IF amount.places > minorExponent(c) THEN Nothing ELSE amount.value \div MinorUnit(c)

Asked == [f \in Fields |-> Read(request.amount[f], request.currency[f])]

\* A fee may be missing and a balance zero; other amounts are positive.
Accepted ==
    /\ \A f \in Fields : request.amount[f] # Nothing => Asked[f] # Nothing
    /\ form \in {Transaction, Transfer, NewGoal, EditGoal} =>
          Asked["first"] # Nothing /\ Asked["first"] > 0

Served == recorded # Nothing /\ recorded.request = request

\* The rows of a transfer have both amounts; between accounts of one currency
\* the second is the first unless it is sent.
Serve ==
    /\ request # Nothing /\ ~Served
    /\ IF Accepted
       THEN /\ recorded' = [request |-> request,
                            amount |-> IF form.second = "received" /\ Asked["second"] = Nothing
                                       THEN [Asked EXCEPT !["second"] = Asked["first"]]
                                       ELSE Asked]
            /\ UNCHANGED <<request, said>>
       ELSE Says("refused", 0) /\ request' = Nothing /\ UNCHANGED recorded
    /\ UNCHANGED <<form, currency, linked, text, submits>>

\* The notice of success converts what was submitted again, in the currency of
\* the account that is chosen by now; if that fails, the form reports a failure.
Answer ==
    /\ request # Nothing /\ Served
    /\ LET named == decimalToMinor(request.shown["first"], currency["first"])
       IN  IF ~form.toast THEN Says("done", 0)
           ELSE IF named = Nothing THEN Says("failed though recorded", 0)
                ELSE Says("amount", named)
    /\ request' = Nothing
    /\ UNCHANGED <<form, currency, linked, text, recorded, submits>>

AmountsNext ==
    \/ \E f \in Fields, t \in Texts : Type(f, t)
    \/ \E f \in Fields, c \in Currencies : Choose(f, c)
    \/ Link \/ Submit \/ Serve \/ Answer

AmountsSpec == AmountsInit /\ [][AmountsNext]_amountVars

-----------------------------------------------------------------------------
\* What is sent of an amount depends on the form.
IsRequest(r) == /\ r.number \in 0 .. MaxTries /\ r.currency \in [Fields -> Currencies]
                /\ r.shown \in [Fields -> Texts \cup {Nothing}]

\* Type invariant: the form, the request under way and what is recorded keep their types.
WebTypeOK ==
    /\ form \in AmountForms /\ currency \in [Fields -> Currencies] /\ linked \in BOOLEAN
    /\ text \in [Fields -> Texts] /\ submits \in 0 .. MaxTries
    /\ request # Nothing => IsRequest(request)
    /\ recorded # Nothing => /\ IsRequest(recorded.request)
                             /\ recorded.amount \in [Fields -> Nat \cup {Nothing}]
    /\ said.what \in {"nothing", "field", "failed", "refused", "done", "amount",
                      "failed though recorded"}

(* What is recorded is, to the last digit, what the person saw in the form *)
(* when they submitted it, in the currency next to it: whatever was typed  *)
(* under another currency before and whatever a hidden field still has.    *)
(* And the server takes every amount the forms let through (TransactionForm*)
(* .tsx 14-28, ValueForms.tsx 88-107, GoalForm.tsx 57-75).                 *)
AmountsAsShown ==
    /\ said.what # "refused"
    /\ recorded # Nothing =>
          \A f \in Fields :
              LET t == recorded.request.shown[f]
                  m == recorded.amount[f]
              IN  CASE t = Nothing ->
                         m = IF form = Transfer THEN recorded.amount["first"] ELSE Nothing
                    [] t # Nothing /\ t.kind = "empty" -> m = Nothing
                    [] OTHER -> m # Nothing /\ m * MinorUnit(recorded.request.currency[f]) = t.value

(* A notice of success names the amount that was recorded, and no success  *)
(* is reported as a failure, unless the person chose an account in another *)
(* currency while the request was under way.                               *)
NoticeIsTrue ==
    said.what \in {"amount", "failed though recorded"}
        /\ said.currency = recorded.request.currency["first"] =>
            said.what = "amount" /\ said.minor = recorded.amount["first"]

(* What is recorded, and what the notice says of it, is what was shown     *)
(* when it was submitted (TransactionForm.tsx).                            *)
FormsRecord == AmountsAsShown /\ NoticeIsTrue

=============================================================================
