------------------------------ MODULE WebViews ------------------------------
(***************************************************************************)
(* What the web client shows: its pages over copies of what the server     *)
(* has.  They share no state with each other, so a behaviour is that of    *)
(* one of them: part says of which.  Variables of two pages may have one   *)
(* name; what the page of a behaviour has no use for stays 0.              *)
(***************************************************************************)
EXTENDS EstateTerms

\* Those of the pages, where each is explained.
CONSTANTS
  Panels, MaxData, MaxSaves,                                     \* WebCache
  Accounts, CurrencyOf, Base, Holds, QuoteOf, Liabilities, Amounts, Rate,
  MaxChanges,                                                    \* WebAccounts
  Worth, Cash, Categories, Debts, Investible, Institutions, MaxBack, \* WebAllocation
  Assets, MaxWrites,                                             \* WebEstate
  Rows, TypeOf, KindOf, Found, PageSize, Filters,                \* WebActivity
  Nothing

VARIABLES
  part,
  list, view, changes, accounts, page,                           \* of several pages
  version, query, mounted, saves,                                \* WebCache
  data, summaries, archived,                                     \* WebAccounts
  report, summary, history,                                      \* WebAllocation
  estate, saving, disagree,                                      \* WebEstate
  url, waiting, ledger, changed, cache, fetch, previous \* WebActivity

C == INSTANCE WebCache
L == INSTANCE WebAccounts
G == INSTANCE WebAllocation
W == INSTANCE WebEstate
A == INSTANCE WebActivity

ASSUME ViewsAssumption ==
  /\ C!CacheAssumption /\ L!AccountsAssumption /\ G!AllocationAssumption
  /\ W!EstateViewAssumption /\ A!ActivityAssumption

\* The variables that only one page has.
ofCache      == <<version, query, mounted, saves>>
ofAccounts   == <<data, summaries, archived>>
ofAllocation == <<report, summary, history>>
ofEstate     == <<estate, saving, disagree>>
ofActivity   == <<url, waiting, ledger, changed, cache, fetch, previous>>

viewsVars == <<part, list, view, changes, accounts, page, ofCache, ofAccounts, ofAllocation,
               ofEstate, ofActivity>>

NoCache      == version = 0 /\ query = 0 /\ mounted = 0 /\ saves = 0
NoAccounts   == data = 0 /\ summaries = 0 /\ archived = 0
NoAllocation == report = 0 /\ summary = 0 /\ history = 0
NoEstate     == estate = 0 /\ saving = 0 /\ disagree = 0
NoActivity ==
  /\ url = 0 /\ waiting = 0 /\ ledger = 0 /\ changed = 0 /\ cache = 0 /\ fetch = 0
  /\ previous = 0

ViewsInit ==
  \/ /\ part = "cache" /\ C!CacheInit
     /\ list = 0 /\ view = 0 /\ changes = 0 /\ accounts = 0 /\ page = 0
     /\ NoAccounts /\ NoAllocation /\ NoEstate /\ NoActivity
  \/ /\ part = "accounts" /\ L!AccountsInit
     /\ accounts = 0 /\ page = 0
     /\ NoCache /\ NoAllocation /\ NoEstate /\ NoActivity
  \/ /\ part = "allocation" /\ G!AllocationInit
     /\ view = 0
     /\ NoCache /\ NoAccounts /\ NoEstate /\ NoActivity
  \/ /\ part = "estate" /\ W!EstateInit
     /\ list = 0
     /\ NoCache /\ NoAccounts /\ NoAllocation /\ NoActivity
  \/ /\ part = "activity" /\ A!ActivityInit
     /\ list = 0 /\ view = 0 /\ changes = 0 /\ accounts = 0 /\ page = 0
     /\ NoCache /\ NoAccounts /\ NoAllocation /\ NoEstate

ViewsNext ==
  \/ /\ part = "cache" /\ C!CacheNext
     /\ UNCHANGED <<part, list, view, changes, accounts, page, ofAccounts, ofAllocation, ofEstate,
                    ofActivity>>
  \/ /\ part = "accounts" /\ L!AccountsNext
     /\ UNCHANGED <<part, accounts, page, ofCache, ofAllocation, ofEstate, ofActivity>>
  \/ /\ part = "allocation" /\ G!AllocationNext
     /\ UNCHANGED <<part, view, ofCache, ofAccounts, ofEstate, ofActivity>>
  \/ /\ part = "estate" /\ W!EstateNext
     /\ UNCHANGED <<part, list, ofCache, ofAccounts, ofAllocation, ofActivity>>
  \/ /\ part = "activity" /\ A!ActivityNext
     /\ UNCHANGED <<part, list, view, changes, accounts, page, ofCache, ofAccounts, ofAllocation,
                    ofEstate>>

ViewsSpec == ViewsInit /\ [][ViewsNext]_viewsVars

-----------------------------------------------------------------------------
(* Properties: those of the modules, where each is stated and explained,   *)
(* gathered by what they promise to the person in front of the page.       *)

\* Every page keeps to the types of its module.
WebTypeOK ==
    /\ part = "cache" => C!WebTypeOK
    /\ part = "accounts" => L!WebTypeOK
    /\ part = "allocation" => G!WebTypeOK
    /\ part = "estate" => W!PlanTypeOK
    /\ part = "activity" => A!WebTypeOK

\* What is on the screen is not older than what the person was told was saved,
\* and a save does not take back another.
FiguresCurrent == part = "cache" => C!FiguresCurrent

\* The list of the accounts says of each what is missing, and where to enter it,
\* unless what it holds is quoted in a third currency.
MissingIsNamed == part = "accounts" => L!MissingIsNamed

\* The groups of the allocation are the sums of the accounts they open on, but for
\* the accounts without an institution.
AllocationAddsUp == part = "allocation" => G!AllocationAddsUp

\* What the pages of the estate plan call covered is, and once there is a plan an
\* up-to-date form lets a share through exactly if it is accepted.
EstateAgrees == part = "estate" => W!EstateAgrees

\* The list of the activity is the server's after every change, unless it was
\* fetched before that and not begun again for it, and shows nothing its filters
\* keep out.
ActivityCurrent == part = "activity" => A!ActivityCurrent

=============================================================================
