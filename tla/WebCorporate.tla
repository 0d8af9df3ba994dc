---------------------------- MODULE WebCorporate ----------------------------
(***************************************************************************)
(* Recording a corporate action: the sheet of the web client, which has    *)
(* one form for five kinds of actions (CorporateActionSheet.tsx), and the  *)
(* checks the server makes of its requests (corporate_actions.go).         *)
(*                                                                         *)
(* The form starts from the holdings and the instruments the client has    *)
(* read by then; the account and the instruments may change at any time.   *)
(* Of an amount it matters whether it was given.                           *)
(***************************************************************************)
EXTENDS Integers, FiniteSets

CONSTANTS
    Instruments,
    Quote,      \* for each, the currency it is quoted in
    Kinds,      \* the kinds of actions that are recorded
    Nothing,    \* no form, no request, no instrument chosen, no list
    MaxTouches, \* bound: changes made in one form
    MaxActions  \* bound: requests sent

CorporateAssumption ==
    /\ Quote \in [Instruments -> {"account", "other"}]
    /\ Kinds \subseteq {"split", "spinoff", "merger", "drip", "inkind"}
    /\ MaxTouches \in Nat /\ MaxActions \in Nat

VARIABLES
    held,     \* the instruments the account holds
    archived, \* the instruments that are archived
    list,     \* the instruments the client has read, or Nothing
    form,     \* the open form
    request,  \* the request under way
    answer,   \* what the server said last
    sent      \* requests sent

corporateVars == <<held, archived, list, form, request, answer, sent>>

\* The ratio is blank, one to one, or any other.
Ratios  == {"blank", "one", "other"}
Fees    == {"empty", "zero", "some"}

FormType ==
    [kind : Kinds, instrument : Instruments \cup {Nothing}, related : Instruments \cup {Nothing},
     ratio : Ratios, filled : BOOLEAN, currency : {"account", "other"}, fee : Fees,
     cash : BOOLEAN, rate : BOOLEAN, destination : BOOLEAN, touches : 0..MaxTouches]

\* Type invariant: the sheet, the request and the answer keep their types.
WebTypeOK ==
    /\ held \subseteq Instruments /\ archived \subseteq Instruments
    /\ list \in (SUBSET Instruments) \cup {Nothing}
    /\ form \in FormType \cup {Nothing} /\ request \in FormType \cup {Nothing}
    /\ answer \in {"none", "same", "settlement", "unsettled", "fee", "holding", "saved"}
    /\ sent \in 0..MaxActions

RatioKinds   == {"split", "spinoff", "merger"}
RelatedKinds == {"spinoff", "merger"}
Cross(f)     == f.currency # "account"

-----------------------------------------------------------------------------
\* The form.

active == IF list = Nothing THEN {} ELSE list

\* A reinvestment starts in the currency of the first holding if the client
\* knows the instrument.
firstQuote(kind, i) ==
    IF kind = "drip" /\ i \in active THEN Quote[i] ELSE "account"

Blank(kind, i) ==
    [kind |-> kind, instrument |-> i, related |-> Nothing,
     ratio |-> IF kind = "split" THEN "other" ELSE "one", filled |-> FALSE,
     currency |-> firstQuote(kind, i), fee |-> "empty", cash |-> FALSE, rate |-> FALSE,
     destination |-> FALSE, touches |-> 0]

\* Mutant: that the two instruments differ is left to the lists they come from.
ValidAsListed(f) ==
    /\ f.instrument # Nothing
    /\ f.kind \in RatioKinds => f.ratio # "blank"
    /\ f.kind = "split" => f.ratio # "one"
    /\ f.kind \in RelatedKinds => f.related # Nothing
    /\ f.kind \in {"drip", "inkind"} => f.filled
    /\ f.kind = "inkind" => f.destination

Valid(f) ==
    /\ f.instrument # Nothing
    /\ f.kind \in RatioKinds => f.ratio # "blank"
    /\ f.kind = "split" => f.ratio # "one"
    /\ f.kind \in RelatedKinds => f.related \notin {Nothing, f.instrument}
    /\ f.kind \in {"drip", "inkind"} => f.filled
    /\ f.kind = "inkind" => f.destination

\* The cash and the rate of a reinvestment are sent only across currencies.
toRequest(f) ==
    IF f.kind = "drip" THEN [f EXCEPT !.cash = @ /\ Cross(f), !.rate = @ /\ Cross(f)] ELSE f

-----------------------------------------------------------------------------
\* The server.

\* An action other than a reinvestment is of something that is held, and all of
\* them are of instruments that are not archived.
Involved(r) == {r.instrument} \cup (IF r.kind \in RelatedKinds THEN {r.related} ELSE {})
Possible(r) == /\ Involved(r) \cap archived = {}
               /\ r.kind # "drip" => r.instrument \in held

Verdict(r) ==
    CASE r.kind \in RelatedKinds /\ r.related = r.instrument     -> "same"
      [] ~Possible(r)                                            -> "holding"
      [] r.kind = "drip" /\ r.rate /\ ~Cross(r)                  -> "settlement"
      [] r.kind = "drip" /\ Cross(r) /\ ~r.cash /\ ~r.rate       -> "unsettled"
      [] r.kind = "inkind" /\ r.fee = "zero"                     -> "fee"
      [] OTHER                                                   -> "saved"

\* A transfer may leave units behind.
After(r) ==
    CASE r.kind = "spinoff" -> {held \cup {r.related}}
      [] r.kind = "merger"  -> {(held \ {r.instrument}) \cup {r.related}}
      [] r.kind = "drip"    -> {held \cup {r.instrument}}
      [] r.kind = "inkind"  -> {held, held \ {r.instrument}}
      [] OTHER              -> {held}

-----------------------------------------------------------------------------
CorporateInit ==
    /\ held \in SUBSET Instruments /\ archived = {}
    /\ list = Nothing /\ form = Nothing /\ request = Nothing
    /\ answer = "none" /\ sent = 0

\* The form is mounted once the holdings are read, whatever became of the list
\* of instruments.  A kind is chosen in the list of actions or named by a link.
Choose(kind) ==
    /\ form = Nothing
    /\ \E i \in IF held = {} THEN {Nothing} ELSE held : form' = Blank(kind, i)
    /\ UNCHANGED <<held, archived, list, request, answer, sent>>

Touch(f) ==
    /\ form # Nothing /\ f # form /\ form.touches < MaxTouches
    /\ form' = [f EXCEPT !.touches = form.touches + 1]
    /\ UNCHANGED <<held, archived, list, request, answer, sent>>

\* A reinvestment may be of any instrument and takes over its currency; the
\* other kinds are of holdings.
instrumentSelect(i) ==
    IF form.kind = "drip"
    THEN i \in active /\ Touch([form EXCEPT !.instrument = i, !.currency = Quote[i]])
    ELSE i \in held /\ Touch([form EXCEPT !.instrument = i])

relatedSelect(i) ==
    /\ form.kind \in RelatedKinds /\ i \in active \ {form.instrument}
    /\ Touch([form EXCEPT !.related = i])

ratioInputs(n) == form.kind \in RatioKinds /\ Touch([form EXCEPT !.ratio = n])

EnterAmounts == form.kind \in {"drip", "inkind"} /\ Touch([form EXCEPT !.filled = TRUE])

TradeCurrency(c) == form.kind = "drip" /\ Touch([form EXCEPT !.currency = c])

Settlement ==
    /\ form.kind = "drip" /\ Cross(form)
    /\ \/ Touch([form EXCEPT !.cash = ~@])
       \/ Touch([form EXCEPT !.rate = ~@])

Fee(n) == form.kind \in {"drip", "inkind"} /\ Touch([form EXCEPT !.fee = n])

Destination == form.kind = "inkind" /\ Touch([form EXCEPT !.destination = TRUE])

Fill ==
    /\ form # Nothing
    /\ \/ \E i \in Instruments : instrumentSelect(i) \/ relatedSelect(i)
       \/ \E n \in Ratios : ratioInputs(n)
       \/ \E c \in {"account", "other"} : TradeCurrency(c)
       \/ \E n \in Fees : Fee(n)
       \/ EnterAmounts \/ Settlement \/ Destination

\* With nothing held there is nothing to record but a reinvestment.
Record ==
    /\ form # Nothing /\ request = Nothing /\ sent < MaxActions
    /\ form.kind # "drip" => held # {}
    /\ Valid(form)
    /\ request' = toRequest(form) /\ sent' = sent + 1
    /\ UNCHANGED <<held, archived, list, form, answer>>

Serve ==
    /\ request # Nothing
    /\ answer' = Verdict(request)
    /\ IF answer' = "saved" THEN held' \in After(request) /\ form' = Nothing
                            ELSE UNCHANGED <<held, form>>
    /\ request' = Nothing
    /\ UNCHANGED <<archived, list, sent>>

\* Back to the list of actions, or away.
Leave ==
    /\ form # Nothing
    /\ form' = Nothing
    /\ UNCHANGED <<held, archived, list, request, answer, sent>>

ReadInstruments ==
    /\ list # Instruments \ archived
    /\ list' = Instruments \ archived
    /\ UNCHANGED <<held, archived, form, request, answer, sent>>

Archive(i) ==
    /\ i \notin archived
    /\ archived' = archived \cup {i}
    /\ UNCHANGED <<held, list, form, request, answer, sent>>

CorporateNext ==
    \/ \E k \in Kinds : Choose(k)
    \/ Fill \/ Record \/ Serve \/ Leave \/ ReadInstruments
    \/ \E i \in Instruments : Archive(i)

CorporateSpec == CorporateInit /\ [][CorporateNext]_corporateVars

-----------------------------------------------------------------------------
(* Whatever order the form is filled in, with lists that come late and     *)
(* fields that a change of currency hides, the server never meets an       *)
(* action of an instrument on itself or a rate within one currency         *)
(* (CorporateActionSheet.tsx 284-325 and 357-402).  It does meet, and      *)
(* refuse, a reinvestment across currencies with neither cash nor a rate,  *)
(* a fee of zero for a transfer, and an action of what was archived or     *)
(* is no longer held.                                                      *)
RequestsWellFormed == answer \notin {"same", "settlement"}

=============================================================================
