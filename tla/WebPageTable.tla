---------------------------- MODULE WebPageTable ----------------------------
(***************************************************************************)
(* The sections of the web client's pages that show an answer of the       *)
(* server, each by what it shows while it has none and when fetching it    *)
(* failed; one that has several answers, by the one it cannot do without.  *)
(* Components that are handed an answer are not listed.                    *)
(***************************************************************************)

\* loading: what is shown before the first answer: a skeleton, nothing, or the
\*          section as it is for a person who has none of it ("claims")
\* failed:  an error, even over figures it has; or figures it has are kept, and
\*          without any it shows an error ("keeps"), nothing, or "claims"
SectionType == [loading : {"skeleton", "nothing", "claims"},
                failed : {"error", "keeps", "nothing", "claims"}]

Replaced == [loading |-> "skeleton", failed |-> "error"]
Kept     == [loading |-> "skeleton", failed |-> "keeps"]
Optional == [loading |-> "nothing", failed |-> "nothing"]
Empty    == [loading |-> "claims", failed |-> "claims"]
EmptyOnFailure == [loading |-> "skeleton", failed |-> "claims"]

-----------------------------------------------------------------------------
\* Home.
HomePage           == Kept
HomeActivityPanel  == Replaced
AttentionPanel     == Replaced
FlowsPanel         == Replaced
GoalsPanel         == Replaced
ReminderPanel      == Optional
AttentionButton    == Empty

\* Accounts.
AccountsPage       == Replaced
FirstAccount       == Empty           \* of the archived accounts
ArchivedList       == Replaced

\* One account.
AccountDetailPage  == Replaced
PositionsView      == Replaced
ValueView          == Replaced
LinkedGoalsCard    == EmptyOnFailure
ActivityFeed       == Replaced
ValuationHistory   == Replaced
RecordedGroups     == Replaced
ReconciliationRows == Replaced
AdvancedSheets     == EmptyOnFailure  \* of the holdings
CorporateFields    == Empty           \* of the instruments and accounts
ConversionFields   == EmptyOnFailure  \* of the instruments
ImportPage         == Replaced

\* Activity, instruments.
ActivityPage       == Kept
InstrumentPage     == Replaced

\* Goals.
GoalsPage          == Replaced
GoalDetailPage     == Replaced
Milestones         == Replaced
LinkedAccountHistory == Replaced
WhatIfPanel        == Kept
GoalAlerts         == Optional

\* Insights.
AllocationPage     == Replaced
HoldingsView       == Replaced
LiquiditySection   == Replaced
ComparePage        == Replaced
IncomePage         == Replaced
NetWorthPage       == Replaced
IncompleteTotals   == Optional

\* Estate plan.
DistributionPage   == Replaced
SummaryPage        == Replaced
BeneficiaryRows    == Replaced
SnapshotPage       == Replaced
EstateSections     == Optional

\* Settings, access, recording.
CategorySettings    == Replaced
InstitutionSettings == Replaced
InstrumentSettings  == Replaced
ExchangeRates       == Replaced
SignInSection       == Replaced
ConsentPage         == Replaced
RecorderAccounts    == Replaced
CommandPalette      == Optional

ClientSections == {
    HomePage, HomeActivityPanel, AttentionPanel, FlowsPanel, GoalsPanel,
    ReminderPanel, AttentionButton, AccountsPage, FirstAccount, ArchivedList,
    AccountDetailPage, PositionsView, ValueView, LinkedGoalsCard, ActivityFeed,
    ValuationHistory, RecordedGroups, ReconciliationRows, AdvancedSheets,
    CorporateFields, ConversionFields, ImportPage, ActivityPage, InstrumentPage,
    GoalsPage, GoalDetailPage, Milestones, LinkedAccountHistory, WhatIfPanel,
    GoalAlerts, AllocationPage, HoldingsView, LiquiditySection, ComparePage,
    IncomePage, NetWorthPage, IncompleteTotals, DistributionPage, SummaryPage,
    BeneficiaryRows, SnapshotPage, EstateSections, CategorySettings,
    InstitutionSettings, InstrumentSettings, ExchangeRates, SignInSection,
    ConsentPage, RecorderAccounts, CommandPalette }

-----------------------------------------------------------------------------
\* The settings panels, by the settings each sets.
ProfileForm        == {"displayName", "appName"}
CurrencyForm       == {"baseCurrency", "supportedCurrencies"}
RegionalForm       == {"timezone", "preferredDateFormat"}
HomeGoalsForm      == {"defaultDashboardPeriod", "defaultGoalReturnBps"}
FreshnessForm      == {"positionStaleDaysStock", "positionStaleDaysEtf", "positionStaleDaysFund"}
SessionTimeoutForm == {"sessionTimeoutMinutes"}

=============================================================================
