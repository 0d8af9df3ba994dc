---------------------------- MODULE WebFormTable ----------------------------
(***************************************************************************)
(* The forms, sheets and confirmation dialogs of the web client that go    *)
(* through useApiMutation (queries.ts), each by what WebForms has to know  *)
(* of it.  The panels that show settings are in WebCache and WebPageTable; *)
(* forms with a preview are in WebImport and WebConvert; sign-in and       *)
(* password forms are in WebSession.                                       *)
(***************************************************************************)

\* Kinds of forms, by where their state lives.

\* In the quick-add sheet: new at every opening, the pending state in the sheet.
Recorder(effect) ==
    [keys |-> "fresh", effect |-> effect, holds |-> FALSE,
     remounts |-> TRUE, closes |-> TRUE, lifts |-> TRUE]

\* In the account's sheets: the key of the attempt dies with the form, the
\* pending state stays with the sheet.
Investment(effect) ==
    [keys |-> "attempt", effect |-> effect, holds |-> FALSE,
     remounts |-> TRUE, closes |-> TRUE, lifts |-> TRUE]

\* Opened under a new React key each time.
Sheet(effect) ==
    [keys |-> "none", effect |-> effect, holds |-> FALSE,
     remounts |-> TRUE, closes |-> TRUE, lifts |-> FALSE]

\* On the page for as long as the page is.
Panel(effect) == [Sheet(effect) EXCEPT !.remounts = FALSE, !.closes = FALSE]

\* A confirmation, which keeps its mutation between openings.
Confirmation == [Sheet("replace") EXCEPT !.remounts = FALSE]

Held(f) == [f EXCEPT !.holds = TRUE]

-----------------------------------------------------------------------------
\* Quick add.
TransactionForm == Recorder("create")
ValuationForm   == Recorder("create")
TransferForm    == Recorder("create")
RecordTradeForm == Recorder("create")
PriceForm       == Recorder("replace")  \* one price per instrument and date
GoalForm        == Recorder("create")

\* Accounts.
NewAccountPage      == [Sheet("create") EXCEPT !.keys = "fresh"]
EditAccountSheet    == Sheet("replace")
ArchiveDialog       == Confirmation
DeleteDialog        == Confirmation
RestoreAccount      == Panel("replace")
TradeForm           == Investment("create")
EditTradeForm       == Investment("replace")
DeleteTradeDialog   == Confirmation
CorporateActionForm == Investment("create")
UndoGroupDialog     == Confirmation
DeleteActivityTrade == Confirmation
ReconcileSheet      == Panel("create")
ReconciliationList  == Confirmation

\* Activity: the sheet of a transaction is the same one at every opening.
EditTransactionSheet ==
    [Sheet("replace") EXCEPT !.keys = "fresh", !.remounts = FALSE]
DeleteActivityDialog == Confirmation

\* Goals.
EditGoalSheet         == Held(Sheet("replace"))
SetGoalStatus         == Confirmation
DeleteGoal            == Confirmation
AddMilestoneSheet     == Sheet("create")
DeleteMilestoneDialog == Confirmation
AlertNotice           == Panel("replace")
GoalReminder          == Panel("replace")

\* Estate plan.
BeneficiarySheet   == Sheet("create")
EditBeneficiary    == Sheet("replace")
ArchiveBeneficiary == Confirmation
DirectiveForm      == Panel("replace")
AllocationForm     == [Panel("replace") EXCEPT !.remounts = TRUE]
RemoveAllocation   == Confirmation
PlanDetailsForm    == Panel("replace")
CreateSnapshot     == Panel("create")
DeleteSnapshot     == Confirmation

\* Settings: lists.
CategorySheet      == Sheet("create")
EditCategory       == Sheet("replace")
ArchiveCategory    == Confirmation
InstitutionSheet   == Sheet("create")
ArchiveInstitution == Confirmation
InstrumentSheet    == Sheet("create")
ArchiveInstrument  == Confirmation
DeleteInstrument   == Confirmation
DeletePrice        == Confirmation
AddRateForm        == [Sheet("create") EXCEPT !.keys = "fresh"]
DeleteRate         == Confirmation

\* Settings: access.
CreateKeyPanel == Panel("create")
RevokeKey      == Held(Confirmation)
RevokeAllKeys  == Held(Confirmation)
DisconnectApp  == Held(Confirmation)
RestorePanel   == Held(Confirmation)

ClientForms == {
    TransactionForm, ValuationForm, TransferForm, RecordTradeForm, PriceForm, GoalForm,
    NewAccountPage, EditAccountSheet, ArchiveDialog, DeleteDialog, RestoreAccount,
    TradeForm, EditTradeForm, DeleteTradeDialog, CorporateActionForm, UndoGroupDialog,
    DeleteActivityTrade, ReconcileSheet, ReconciliationList,
    EditTransactionSheet, DeleteActivityDialog,
    EditGoalSheet, SetGoalStatus, DeleteGoal, AddMilestoneSheet, DeleteMilestoneDialog,
    AlertNotice, GoalReminder,
    BeneficiarySheet, EditBeneficiary, ArchiveBeneficiary, DirectiveForm, AllocationForm,
    RemoveAllocation, PlanDetailsForm, CreateSnapshot, DeleteSnapshot,
    CategorySheet, EditCategory, ArchiveCategory, InstitutionSheet, ArchiveInstitution,
    InstrumentSheet, ArchiveInstrument, DeleteInstrument, DeletePrice, AddRateForm, DeleteRate,
    CreateKeyPanel, RevokeKey, RevokeAllKeys, DisconnectApp,
    RestorePanel }

=============================================================================
