------------------------------ MODULE WebTrade ------------------------------
(***************************************************************************)
(* Recording and correcting one trade of a holding account: the sheet of   *)
(* the web client (TradeSheet.tsx), and what the server makes of its       *)
(* request (investment_mutations.go).                                      *)
(*                                                                         *)
(* A field keeps what was typed in it when another field hides it.  The    *)
(* form starts from the copy of the trade the client has, which may be     *)
(* older than the trade, and stays as it is when a newer copy arrives.     *)
(*                                                                         *)
(* Quantity and price matter by their product, a rate by how many units of *)
(* the account's currency one unit of the other is worth.                  *)
(***************************************************************************)
EXTENDS Integers

CONSTANTS
    Types,      \* those of TradeType that are used
    Amounts,    \* what can be typed in an amount or a rate
    Rates,      \* the saved exchange rates there may be, 0 when there is none
    Nothing,    \* no trade, no form, no request
    MaxTouches, \* bound: changes made in one form
    MaxSaves    \* bound: requests sent

TradeAssumption ==
    /\ Types \subseteq {"opening_position", "buy", "sell", "quantity_adjustment"}
    /\ Amounts \subseteq Nat \ {0} /\ Rates \subseteq Nat
    /\ MaxTouches \in Nat /\ MaxSaves \in Nat

VARIABLES
    event,   \* the trade of the server
    saved,   \* the saved exchange rate between the two currencies
    seen,    \* the client's copy of the trade
    form,    \* the open form
    request, \* the request under way
    answer,  \* what the server said last
    saves    \* requests sent

tradeVars == <<event, saved, seen, form, request, answer, saves>>

\* The account's currency and the other one.
TradeCurrencies == {"account", "other"}

\* Zero is an empty field.  The total is quantity times price.
ValuesType ==
    [type : Types, currency : TradeCurrencies, total : Amounts \cup {0}, fee : Amounts \cup {0},
     feeCurrency : TradeCurrencies, cash : Nat, rate : Amounts \cup {0},
     basis : Amounts \cup {0}]

\* A request has the same fields; the trade has the cash it moved.
IsEvent(e) == [e EXCEPT !.cash = 0] \in ValuesType /\ e.cash \in Int

\* The form knows the copy it started from and counts the changes; the request
\* is what the form was then, with its values as they are sent.
IsForm(f) == /\ f.values \in ValuesType /\ f.touches \in 0..MaxTouches
             /\ f.of # Nothing => IsEvent(f.of)

\* Type invariant: the sheet, the request and the stored trade keep their types.
WebTypeOK ==
    /\ \A e \in {event, seen} : e # Nothing => IsEvent(e)
    /\ saved \in Rates
    /\ \A f \in {form, request} : f # Nothing => IsForm(f)
    /\ answer \in {"none", "rules", "unsettled", "no rate", "saved"}
    /\ saves \in 0..MaxSaves

Priced(v) == v.type \in {"buy", "sell"}
Cross(v)  == v.currency # "account"

-----------------------------------------------------------------------------
\* The form.

Abs(n) == IF n < 0 THEN -n ELSE n

\* The cash of a trade fills the field only if the trade crosses currencies and
\* has no rate of its own.
explicitCash(e) == Cross(e) /\ e.rate = 0 /\ e.cash # 0

valuesFromEvent(e) == [e EXCEPT !.cash = IF explicitCash(e) THEN Abs(e.cash) ELSE 0]

Blank(t, c) ==
    [type |-> t, currency |-> c, total |-> 0, fee |-> 0, feeCurrency |-> c,
     cash |-> 0, rate |-> 0, basis |-> 0]

\* The one thing that is required of a trade that is priced.
Valid(v) == Priced(v) => v.total # 0

\* Mutant: the fee is sent when it is hidden, too.
toRequestHiddenFee(v) ==
    [v EXCEPT !.feeCurrency = IF v.fee # 0 THEN @ ELSE v.currency,
              !.cash  = IF Priced(v) THEN @ ELSE 0,
              !.rate  = IF Priced(v) /\ Cross(v) THEN @ ELSE 0,
              !.basis = IF v.type = "opening_position" THEN @ ELSE 0]

\* What is hidden is not sent.
toRequest(v) ==
    LET fee == IF Priced(v) THEN v.fee ELSE 0 IN
    [v EXCEPT !.total = IF Priced(v) \/ v.type = "opening_position" THEN @ ELSE 0,
              !.fee = fee,
              !.feeCurrency = IF fee # 0 THEN @ ELSE v.currency,
              !.cash  = IF Priced(v) THEN @ ELSE 0,
              !.rate  = IF Priced(v) /\ Cross(v) THEN @ ELSE 0,
              !.basis = IF v.type = "opening_position" THEN @ ELSE 0]

-----------------------------------------------------------------------------
\* The server.

\* What a trade of this type may not carry.
AgainstTheRules(r) ==
    \/ Priced(r) /\ r.total = 0
    \/ ~Priced(r) /\ (r.fee # 0 \/ r.cash # 0)
    \/ r.rate # 0 /\ (~Priced(r) \/ ~Cross(r))
    \/ r.basis # 0 /\ r.type # "opening_position"

\* A trade across currencies settles in the cash given or at the rate given.
Unsettled(r) == Priced(r) /\ Cross(r) /\ r.cash = 0 /\ r.rate = 0

\* Of an amount in a currency: the rate of the trade for its own currency, else
\* the saved one.
RateFor(r, currency) ==
    IF currency = "account" THEN 1
    ELSE IF r.rate # 0 /\ currency = r.currency THEN r.rate ELSE saved

Unconvertible(r) ==
    /\ Priced(r) /\ r.cash = 0
    /\ \/ RateFor(r, r.currency) = 0
       \/ r.fee # 0 /\ RateFor(r, r.feeCurrency) = 0

\* Mutant: the fee is added to the cash that was given.
positionCashEffectAndFee(r) ==
    LET gross == r.total * RateFor(r, r.currency)
        fee   == IF r.fee = 0 THEN 0 ELSE r.fee * RateFor(r, r.feeCurrency)
    IN  IF ~Priced(r) THEN 0
        ELSE IF r.type = "buy" THEN -((IF r.cash # 0 THEN r.cash ELSE gross) + fee)
        ELSE (IF r.cash # 0 THEN r.cash ELSE gross) - fee

positionCashEffect(r) ==
    LET gross == r.total * RateFor(r, r.currency)
        fee   == IF r.fee = 0 THEN 0 ELSE r.fee * RateFor(r, r.feeCurrency)
    IN  IF ~Priced(r) THEN 0
        ELSE IF r.cash # 0 THEN IF r.type = "buy" THEN -r.cash ELSE r.cash
        ELSE IF r.type = "buy" THEN -(gross + fee)
        ELSE gross - fee

Verdict(r) ==
    CASE AgainstTheRules(r) -> "rules"
      [] Unsettled(r)       -> "unsettled"
      [] Unconvertible(r)   -> "no rate"
      [] OTHER              -> "saved"

Written(r) == [r EXCEPT !.cash = positionCashEffect(r)]

-----------------------------------------------------------------------------
TradeInit ==
    /\ event = Nothing /\ seen = Nothing
    /\ saved \in Rates
    /\ form = Nothing /\ request = Nothing
    /\ answer = "none" /\ saves = 0

Opened(v, e) == [values |-> v, of |-> e, touches |-> 0]

\* A new trade, of an instrument quoted in either currency.
NewTrade(t, c) ==
    /\ form = Nothing /\ event = Nothing
    /\ form' = Opened(Blank(t, c), Nothing)
    /\ UNCHANGED <<event, saved, seen, request, answer, saves>>

EditTrade ==
    /\ form = Nothing /\ seen # Nothing
    /\ form' = Opened(valuesFromEvent(seen), seen)
    /\ UNCHANGED <<event, saved, seen, request, answer, saves>>

Touch(v) ==
    /\ v # form.values /\ form.touches < MaxTouches
    /\ form' = [form EXCEPT !.values = v, !.touches = @ + 1]
    /\ UNCHANGED <<event, saved, seen, request, answer, saves>>

ChangeType(t) == form # Nothing /\ Touch([form.values EXCEPT !.type = t])

\* The currency of the trade is offered for every type, and follows the
\* instrument unless a trade is being corrected.
ChangeCurrency(c) == form # Nothing /\ Touch([form.values EXCEPT !.currency = c])

onInstrumentChange(c) ==
    /\ form # Nothing /\ form.of = Nothing
    /\ Touch([form.values EXCEPT !.currency = c, !.feeCurrency = c])

Price(n) == /\ form # Nothing /\ form.values.type # "quantity_adjustment"
            /\ Touch([form.values EXCEPT !.total = n])

Basis(n) == /\ form # Nothing /\ form.values.type = "opening_position"
            /\ Touch([form.values EXCEPT !.basis = n])

\* Cash and fees are on the screen of a buy or a sale.
Fee(n, c) == /\ form # Nothing /\ Priced(form.values)
             /\ Touch([form.values EXCEPT !.fee = n, !.feeCurrency = c])

Cash(n) == /\ form # Nothing /\ Priced(form.values)
           /\ Touch([form.values EXCEPT !.cash = n])

Rate(n) == /\ form # Nothing /\ Priced(form.values) /\ Cross(form.values)
           /\ Touch([form.values EXCEPT !.rate = n])

Fill ==
    \/ \E t \in Types : ChangeType(t)
    \/ \E c \in TradeCurrencies : ChangeCurrency(c) \/ onInstrumentChange(c)
    \/ \E n \in Amounts \cup {0} :
          \/ Price(n) \/ Basis(n) \/ Cash(n) \/ Rate(n)
          \/ \E c \in TradeCurrencies : Fee(n, c)

Submit ==
    /\ form # Nothing /\ Valid(form.values) /\ request = Nothing /\ saves < MaxSaves
    /\ request' = [form EXCEPT !.values = toRequest(@)]
    /\ saves' = saves + 1
    /\ UNCHANGED <<event, saved, seen, form, answer>>

\* The sheet closes when the trade is saved; what it says is shown otherwise.
Serve ==
    /\ request # Nothing
    /\ answer' = Verdict(request.values)
    /\ event' = IF answer' = "saved" THEN Written(request.values) ELSE event
    /\ form' = IF answer' = "saved" THEN Nothing ELSE form
    /\ request' = Nothing
    /\ UNCHANGED <<saved, seen, saves>>

Close ==
    /\ form # Nothing
    /\ form' = Nothing
    /\ UNCHANGED <<event, saved, seen, request, answer, saves>>

\* The query of the trade is answered, at any time.
ReadEvent ==
    /\ event # Nothing /\ seen # event
    /\ seen' = event
    /\ UNCHANGED <<event, saved, form, request, answer, saves>>

SaveRate(n) ==
    /\ n # saved /\ n # 0
    /\ saved' = n
    /\ UNCHANGED <<event, seen, form, request, answer, saves>>

DeleteTrade ==
    /\ event # Nothing /\ request = Nothing
    /\ event' = Nothing /\ seen' = Nothing /\ form' = Nothing
    /\ UNCHANGED <<saved, request, answer, saves>>

TradeNext ==
    \/ \E t \in Types, c \in TradeCurrencies : NewTrade(t, c)
    \/ EditTrade \/ Fill \/ Submit \/ Serve \/ Close \/ ReadEvent \/ DeleteTrade
    \/ \E n \in Rates : SaveRate(n)

TradeSpec == TradeInit /\ [][TradeNext]_tradeVars

-----------------------------------------------------------------------------
(* Whatever was filled in and hidden again before the form was sent, the   *)
(* server never meets a field that the type or the currency of the trade   *)
(* does not allow, nor misses a quantity or a price (toRequest of          *)
(* TradeSheet.tsx, createOrUpdatePositionEvent).  It may miss the          *)
(* settlement: a trade across currencies is sent with neither cash nor a   *)
(* rate, and refused.  Lines 64 and 574 of the sheet say that the saved    *)
(* exchange rate is used then.                                             *)
RequestsWellFormed == answer # "rules"

\* The trade is saved as it was opened.
SavedUntouched ==
    request # Nothing /\ request' = Nothing /\ request.touches = 0
        /\ request.of = event /\ event' # Nothing

\* The cash of a trade is that of its own rate.
AtItsRate(e) == e.cash = positionCashEffect([e EXCEPT !.cash = 0])

(* A trade across currencies moves the same cash after it is opened and    *)
(* saved, whatever became of the saved exchange rates meanwhile            *)
(* (valuesFromEvent, positionCashEffect).  Excepted is one that was given  *)
(* cash beside a rate it does not agree with: the cash counts for the      *)
(* server and is left out of the form, so that saving the form moves what  *)
(* the rate makes of the trade instead.                                    *)
KeepsSettledCash ==
    SavedUntouched /\ event # Nothing /\ Cross(event) /\ (event.rate = 0 \/ AtItsRate(event))
        => event'.cash = event.cash
SettledCashKept == [][KeepsSettledCash]_tradeVars

=============================================================================
