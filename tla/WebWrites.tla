----------------------------- MODULE WebWrites -----------------------------
(***************************************************************************)
(* What the web client sends: its forms and sheets, each with the part of  *)
(* the server that it talks to.  They share no state with each other, so a *)
(* behaviour is that of one of them: part says of which.  Variables of two *)
(* pages may have one name; what the page of a behaviour has no use for    *)
(* stays 0.                                                                *)
(***************************************************************************)

\* Those of the pages, where each is explained.
CONSTANTS
  Forms, Bodies, MaxOpenings, MaxSubmits,              \* WebForms
  Currencies, Thousandths, MaxTries,                   \* WebAmounts
  Types, Amounts, Rates, MaxTouches, MaxSaves,         \* WebTrade
  Instruments, Quote, Kinds, MaxActions,               \* WebCorporate
  Categories, Holds, Liabilities, Tradable, MaxHoldings, MaxClicks,  \* WebNewAccount
  RowsOf, Needs, Faulty, NoFile, MaxRequests,          \* WebImport
  Incomplete, Worth, Balances,                         \* WebConvert
  Nothing

VARIABLES
  part,
  form, request, requests, answer, sent, archived,       \* of several pages
  openings, open, body, memo, busy, book,                \* WebForms
  currency, linked, text, recorded, said, submits,       \* WebAmounts
  event, saved, seen, saves,                             \* WebTrade
  held, list,                                            \* WebCorporate
  known, step, draft, run, accounts, clicks,             \* WebNewAccount
  history, picked, file, preview, commit,                \* WebImport
  balance, conversion, typed, review, attempt            \* WebConvert

F == INSTANCE WebForms
M == INSTANCE WebAmounts
T == INSTANCE WebTrade
O == INSTANCE WebCorporate
N == INSTANCE WebNewAccount
I == INSTANCE WebImport
V == INSTANCE WebConvert

ASSUME WritesAssumption ==
  /\ F!FormsAssumption /\ M!AmountsAssumption /\ T!TradeAssumption /\ O!CorporateAssumption
  /\ N!NewAccountAssumption /\ I!ImportAssumption /\ V!ConvertAssumption

\* The variables that only one page has.
ofForms      == <<openings, open, body, memo, busy, book>>
ofAmounts    == <<currency, linked, text, recorded, said, submits>>
ofTrade      == <<event, saved, seen, saves>>
ofCorporate  == <<held, list>>
ofNewAccount == <<known, step, draft, run, accounts, clicks>>
ofImport     == <<history, picked, file, preview, commit>>
ofConvert    == <<balance, conversion, typed, review, attempt>>

writesVars == <<part, form, request, requests, answer, sent, archived, ofForms, ofAmounts,
                ofTrade, ofCorporate, ofNewAccount, ofImport, ofConvert>>

NoForms == openings = 0 /\ open = 0 /\ body = 0 /\ memo = 0 /\ busy = 0 /\ book = 0
NoAmounts ==
  currency = 0 /\ linked = 0 /\ text = 0 /\ recorded = 0 /\ said = 0 /\ submits = 0
NoTrade     == event = 0 /\ saved = 0 /\ seen = 0 /\ saves = 0
NoCorporate == held = 0 /\ list = 0
NoNewAccount ==
  known = 0 /\ step = 0 /\ draft = 0 /\ run = 0 /\ accounts = 0 /\ clicks = 0
NoImport    == history = 0 /\ picked = 0 /\ file = 0 /\ preview = 0 /\ commit = 0
NoConvert   == balance = 0 /\ conversion = 0 /\ typed = 0 /\ review = 0 /\ attempt = 0

WritesInit ==
  \/ /\ part = "form" /\ F!FormInit
     /\ request = 0 /\ requests = 0 /\ answer = 0 /\ archived = 0
     /\ NoAmounts /\ NoTrade /\ NoCorporate /\ NoNewAccount /\ NoImport /\ NoConvert
  \/ /\ part = "amounts" /\ M!AmountsInit
     /\ requests = 0 /\ answer = 0 /\ sent = 0 /\ archived = 0
     /\ NoForms /\ NoTrade /\ NoCorporate /\ NoNewAccount /\ NoImport /\ NoConvert
  \/ /\ part = "trade" /\ T!TradeInit
     /\ requests = 0 /\ sent = 0 /\ archived = 0
     /\ NoForms /\ NoAmounts /\ NoCorporate /\ NoNewAccount /\ NoImport /\ NoConvert
  \/ /\ part = "corporate" /\ O!CorporateInit
     /\ requests = 0
     /\ NoForms /\ NoAmounts /\ NoTrade /\ NoNewAccount /\ NoImport /\ NoConvert
  \/ /\ part = "opening" /\ N!NewAccountInit
     /\ form = 0 /\ request = 0 /\ requests = 0 /\ answer = 0 /\ sent = 0
     /\ NoForms /\ NoAmounts /\ NoTrade /\ NoCorporate /\ NoImport /\ NoConvert
  \/ /\ part = "import" /\ I!ImportInit
     /\ request = 0 /\ answer = 0 /\ sent = 0 /\ archived = 0
     /\ NoForms /\ NoAmounts /\ NoTrade /\ NoCorporate /\ NoNewAccount /\ NoConvert
  \/ /\ part = "convert" /\ V!ConvertInit
     /\ form = 0 /\ request = 0 /\ answer = 0 /\ sent = 0 /\ archived = 0
     /\ NoForms /\ NoAmounts /\ NoTrade /\ NoCorporate /\ NoNewAccount /\ NoImport

WritesNext ==
  \/ /\ part = "form" /\ F!FormNext
     /\ UNCHANGED <<part, request, requests, answer, archived, ofAmounts, ofTrade, ofCorporate,
                    ofNewAccount, ofImport, ofConvert>>
  \/ /\ part = "amounts" /\ M!AmountsNext
     /\ UNCHANGED <<part, requests, answer, sent, archived, ofForms, ofTrade, ofCorporate,
                    ofNewAccount, ofImport, ofConvert>>
  \/ /\ part = "trade" /\ T!TradeNext
     /\ UNCHANGED <<part, requests, sent, archived, ofForms, ofAmounts, ofCorporate,
                    ofNewAccount, ofImport, ofConvert>>
  \/ /\ part = "corporate" /\ O!CorporateNext
     /\ UNCHANGED <<part, requests, ofForms, ofAmounts, ofTrade, ofNewAccount, ofImport,
                    ofConvert>>
  \/ /\ part = "opening" /\ N!NewAccountNext
     /\ UNCHANGED <<part, form, request, requests, answer, sent, ofForms, ofAmounts, ofTrade,
                    ofCorporate, ofImport, ofConvert>>
  \/ /\ part = "import" /\ I!ImportNext
     /\ UNCHANGED <<part, request, answer, sent, archived, ofForms, ofAmounts, ofTrade,
                    ofCorporate, ofNewAccount, ofConvert>>
  \/ /\ part = "convert" /\ V!ConvertNext
     /\ UNCHANGED <<part, form, request, answer, sent, archived, ofForms, ofAmounts, ofTrade,
                    ofCorporate, ofNewAccount, ofImport>>

WritesSpec == WritesInit /\ [][WritesNext]_writesVars

-----------------------------------------------------------------------------
(* Properties: those of the modules, where each is stated and explained,   *)
(* gathered by what they promise to the person in front of the page.       *)

\* Every page keeps to the types of its module.
WebTypeOK ==
    /\ part = "form" => F!WebTypeOK
    /\ part = "amounts" => M!WebTypeOK
    /\ part = "trade" => T!WebTypeOK
    /\ part = "corporate" => O!WebTypeOK
    /\ part = "opening" => N!WebTypeOK
    /\ part = "import" => I!WebTypeOK
    /\ part = "convert" => V!WebTypeOK

\* What is submitted again with the key of an attempt is recorded once, what is
\* called a success is what was submitted, and amounts are what the form showed.
FormsRecord ==
    /\ part = "form" => F!FormsRecord
    /\ part = "amounts" => M!FormsRecord

\* The forms of trades and corporate actions send no field that the rules of the
\* server exclude for the type, kind or currency that is sent, and no action of an
\* instrument on itself, however fields were filled in and hidden again.  Left open
\* by the forms, and refused, are a settlement across currencies that is missing,
\* a fee of zero for a transfer, and what is no longer held or archived.
RequestsWellFormed ==
    /\ part = "trade" => T!RequestsWellFormed
    /\ part = "corporate" => O!RequestsWellFormed

\* A trade across currencies, opened and saved as it is, moves the same cash, unless
\* it was given cash beside a rate that makes something else of it.
SettledCashKept == [][part = "trade" => T!KeepsSettledCash]_writesVars

\* An account is opened with what the review of the last step has shown, and
\* converted into what its preview has shown.
DoneAsReviewed ==
    /\ part = "opening" => N!OpenedAsReviewed
    /\ part = "convert" => V!ConvertedAsReviewed

\* A file is imported once, and trades whole or not at all.
ImportsWhole == part = "import" => I!ImportsWhole

=============================================================================
