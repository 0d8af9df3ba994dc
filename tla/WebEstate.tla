------------------------------- MODULE WebEstate -------------------------------
(***************************************************************************)
(* The estate pages of the web client (web/src/features/estate) over the   *)
(* plan the server keeps.  A page joins two answers, the plan and the      *)
(* accounts, each as of its own fetch; what it says of the plan, and the   *)
(* shares its forms let through, come from that view.  Meanwhile another   *)
(* tab may change the plan.                                                *)
(*                                                                         *)
(* Requests that overlap inside the server are the subject of Estate; here *)
(* each is one step.  Left out: review items that only warn, liabilities   *)
(* (listed, never shared out), notes and dates, summaries.                 *)
(***************************************************************************)
EXTENDS Integers, FiniteSets, Functions, EstateTerms

CONSTANTS
  Assets,         \* the accounts that are no liabilities
  MaxWrites       \* BOUND: requests that change the plan or an account

EstateViewAssumption ==
  /\ {Full, MaxWrites} \subseteq Nat /\ Full > 0 /\ Residue \notin Assets
  /\ IsFiniteSet(Beneficiaries)

VARIABLES
  accounts,  \* counted in net worth, uncounted or archived
  estate,    \* the plan: its own row, beneficiaries, directives and shares
  view,      \* the accounts and the estate as this tab last fetched them
  page,      \* what the summary and the overview say of that view
  saving,    \* the second request of a save that first makes sure of a plan, or NoCall
  disagree,  \* HISTORY: on an up-to-date page of a plan, form and server differed on
             \* the last share
  changes

estateVars == <<accounts, estate, view, page, saving, disagree, changes>>

PlanTiers == {"primary", "contingent"}
FormRows == (Assets \cup {Residue}) \X Beneficiaries \X PlanTiers

AccountsType == [Assets -> {"counted", "uncounted", "archived"}]
EstateType ==
  [plan : {"none", "default", "details"},  \* no row; the default title only; what the user entered
   beneficiary : [Beneficiaries -> {"none", "active", "archived"}],
   directive : [Assets -> {"none", "included", "excluded"}],
   share : [FormRows -> 0 .. Full]]

NoCall == [op |-> "none", row |-> <<>>, bps |-> 0]
DirectiveCalls == [op : {"included", "excluded"}, row : {<<a>> : a \in Assets}, bps : {0}]
ShareCalls == [op : {"share"}, row : FormRows, bps : 1 .. Full]

-----------------------------------------------------------------------------
(* The view of a page: model.ts.  v is a view. *)

\* What of a tier is shared out among B.
given(share, list, tier, B) ==
  SumFunctionOnSet([b \in Beneficiaries |-> share[<<list, b, tier>>]], B)

tierTotal(v, list, tier) == given(v.estate.share, list, tier, Beneficiaries)

\* Mutant: the share that is replaced counts too.
projectedWithOwn(v, r, bps) == tierTotal(v, r[1], r[3]) + bps

\* Saving replaces the beneficiary's own share.
projectedTierTotal(v, r, bps) == given(v.estate.share, r[1], r[3], Beneficiaries \ {r[2]}) + bps

Named(v, list) ==
  {b \in Beneficiaries : \E tier \in PlanTiers : v.estate.share[<<list, b, tier>>] > 0}

activeBeneficiaries(v) == {b \in Beneficiaries : v.estate.beneficiary[b] = "active"}

assets(v) == {a \in Assets : v.accounts[a] # "archived"}

AssetRow(v, a) ==
  [directive |-> v.estate.directive[a],
   isIncluded |-> IF v.estate.directive[a] = "none" THEN v.accounts[a] = "counted"
                  ELSE v.estate.directive[a] = "included",
   primary |-> IF v.estate.directive[a] = "none" THEN 0 ELSE tierTotal(v, a, "primary"),
   contingent |-> IF v.estate.directive[a] = "none" THEN 0 ELSE tierTotal(v, a, "contingent")]

included(v) == {a \in assets(v) : AssetRow(v, a).isIncluded}

assetStatus(v, a) ==
  LET row == AssetRow(v, a)
      contingentOk == row.contingent \in {0, Full}
  IN  CASE ~row.isIncluded -> "excluded"
        [] row.isIncluded /\ row.directive = "none" -> "unconfigured"
        [] OTHER ->
             IF row.primary = Full /\ contingentOk THEN "complete"
             ELSE IF row.primary < Full /\ tierTotal(v, Residue, "primary") = Full /\ contingentOk
                  THEN "covered" ELSE "incomplete"

Raised(checks) == {code \in DOMAIN checks : checks[code]}

\* The review items of one included asset, and of the plan as a whole.
assetItems(v, a) ==
  LET row == AssetRow(v, a)
      none == row.directive = "none"
  IN  Raised([unconfigured |-> none,
              allocationIncomplete |->
                ~none /\ row.primary < Full /\ tierTotal(v, Residue, "primary") # Full,
              allocationOver |-> row.primary > Full,
              contingentIncomplete |-> row.contingent \notin {0, Full},
              archivedBeneficiary |-> ~none /\ ~ Named(v, a) \subseteq activeBeneficiaries(v)])

\* Mutant: who is named in the residue is not looked at.
planItemsUnnamed(v) ==
  Raised([noBeneficiaries |-> activeBeneficiaries(v) = {},
          residueIncomplete |-> tierTotal(v, Residue, "primary") \notin {0, Full},
          residueContingentIncomplete |-> tierTotal(v, Residue, "contingent") \notin {0, Full}])

planItems(v) ==
  Raised([noBeneficiaries |-> activeBeneficiaries(v) = {},
          archivedResidual |-> ~ Named(v, Residue) \subseteq activeBeneficiaries(v),
          residueIncomplete |-> tierTotal(v, Residue, "primary") \notin {0, Full},
          residueContingentIncomplete |-> tierTotal(v, Residue, "contingent") \notin {0, Full}])

reviewItems(v) ==
  (planItems(v) \X {"plan"}) \cup UNION {assetItems(v, a) \X {a} : a \in included(v)}

\* Every blocking item is one of MATH_CODES.
isMathematicallyComplete(v) == reviewItems(v) = {}

\* Where a beneficiary is named, as the beneficiary overview lists it.
beneficiaryRoles(v, b) ==
  {r \in FormRows : /\ r[2] = b /\ v.estate.share[r] > 0
                    /\ r[1] = Residue \/ r[1] \in included(v)}

-----------------------------------------------------------------------------
(* What the pages say and offer *)

settled(v) == {a \in included(v) : assetStatus(v, a) \in {"complete", "covered"}}

\* EstateOverviewPage: the third step is ticked off.
DistributionDone(v) ==
  included(v) # {} /\ settled(v) = included(v) /\ isMathematicallyComplete(v)

\* EstateOverviewPage: nothing is recorded yet.
fresh(v) ==
  /\ v.estate.plan = "none"
  /\ \A b \in Beneficiaries : v.estate.beneficiary[b] = "none"
  /\ \A a \in Assets : v.estate.directive[a] = "none"

\* fixLink: the page an item sends the user to.
fixLink(item) ==
  CASE item[2] # "plan" -> "asset"
    [] item[2] = "plan" /\ item[1] \in {"noBeneficiaries", "archivedResidual"} -> "beneficiaries"
    [] OTHER -> "distribution"

\* CompletionReview: "Every included asset has complete primary coverage ...",
\* and the same in figures on the overview.
Rendered(v) ==
  [covered |-> reviewItems(v) = {}, done |-> DistributionDone(v), fresh |-> fresh(v),
   links |-> {fixLink(item) : item \in reviewItems(v)},
   status |-> [a \in assets(v) |-> assetStatus(v, a)],
   roles |-> [b \in Beneficiaries |-> beneficiaryRoles(v, b)]]

\* AssetSheet, ResidueCard: the tiers that can be edited.
Editable(v, list) ==
  list = Residue \/ (list \in included(v) /\ v.estate.directive[list] # "none")

\* The form names active beneficiaries only, and lets no share above the rest through.
InForm(v, r) == Editable(v, r[1]) /\ r[2] \in activeBeneficiaries(v)
Offered(v, r) == {bps \in 1 .. Full : projectedTierTotal(v, r, bps) <= Full}

-----------------------------------------------------------------------------
(* The server: estate_mutations.go *)

Now == [accounts |-> accounts, estate |-> estate]

planOf(e) == IF e.plan = "none" THEN "default" ELSE e.plan

\* Mutant: a share is compared with the whole, not with what the others leave of it.
AcceptedEach(r, bps) ==
  /\ estate.plan # "none" /\ estate.beneficiary[r[2]] = "active"
  /\ r[1] # Residue => estate.directive[r[1]] = "included"
  /\ bps <= Full

\* upsertAllocation.
Accepted(r, bps) ==
  /\ estate.plan # "none"
  /\ estate.beneficiary[r[2]] = "active"
  /\ r[1] # Residue => estate.directive[r[1]] = "included"
  /\ given(estate.share, r[1], r[3], Beneficiaries \ {r[2]}) + bps <= Full

Write(e) ==
  /\ changes < MaxWrites /\ changes' = changes + 1
  /\ estate' = e /\ UNCHANGED <<accounts, view, page>>

ServeShare(r, bps) == Write(IF Accepted(r, bps) THEN [estate EXCEPT !.share[r] = bps] ELSE estate)

\* UpsertDirective: the account must not be archived; the plan is made if there is none.
ServeDirective(a, inclusion) ==
  Write(IF accounts[a] = "archived" THEN [estate EXCEPT !.plan = planOf(estate)]
        ELSE [estate EXCEPT !.plan = planOf(estate), !.directive[a] = inclusion])

Serve(call) ==
  IF call.op = "share" THEN ServeShare(call.row, call.bps) ELSE ServeDirective(call.row[1], call.op)

\* UpdatePlan sets the title, the jurisdiction and both dates to what it is sent.
ServePlan(plan) == Write([estate EXCEPT !.plan = plan])

-----------------------------------------------------------------------------
(* Actions *)

\* useEstateView: the two answers arrive apart.
FetchEstate ==
  /\ view' = [view EXCEPT !.estate = estate] /\ page' = Rendered(view')
  /\ UNCHANGED <<accounts, estate, saving, disagree, changes>>

FetchAccounts ==
  /\ view' = [view EXCEPT !.accounts = accounts] /\ page' = Rendered(view')
  /\ UNCHANGED <<accounts, estate, saving, disagree, changes>>

PlanDetailsForm == ServePlan("details") /\ UNCHANGED <<saving, disagree>>

\* ensurePlan: without a plan in the view, a first request saves the default title.
Save(call) ==
  /\ saving = NoCall
  /\ IF view.estate.plan = "none" /\ (call.op = "share" => call.row[1] = Residue)
     THEN ServePlan("default") /\ saving' = call
     ELSE Serve(call) /\ UNCHANGED saving

\* The second request arrives, or the save ends after the first.
SaveRest == saving # NoCall /\ Serve(saving) /\ saving' = NoCall /\ UNCHANGED disagree
SaveFails ==
  saving # NoCall /\ saving' = NoCall /\ UNCHANGED <<accounts, estate, view, page, disagree, changes>>

DirectiveForm(a, inclusion) ==
  /\ a \in assets(view) /\ Save([op |-> inclusion, row |-> <<a>>, bps |-> 0])
  /\ UNCHANGED disagree

AllocationForm(r, bps) ==
  /\ InForm(view, r)
  /\ disagree' = (view = Now /\ estate.plan # "none" /\ (bps \in Offered(view, r)) # Accepted(r, bps))
  /\ IF bps \in Offered(view, r) THEN Save([op |-> "share", row |-> r, bps |-> bps])
     ELSE UNCHANGED <<accounts, estate, view, page, saving, changes>>

\* TierEditor, in this tab or another.
RemoveShare(r) ==
  /\ estate.share[r] > 0
  /\ Write([estate EXCEPT !.share[r] = 0]) /\ UNCHANGED <<saving, disagree>>

\* BeneficiarySheet, BeneficiariesPage: add, archive, restore.
SetBeneficiary(b, status) ==
  /\ status = "active" \/ estate.beneficiary[b] # "none"
  /\ Write([estate EXCEPT !.beneficiary[b] = status]) /\ UNCHANGED <<saving, disagree>>

\* Another tab, whose page has a view of its own.
Elsewhere ==
  /\ \E call \in DirectiveCalls \cup ShareCalls : Serve(call)
  /\ UNCHANGED <<saving, disagree>>

\* The account is edited, archived or restored.
EditAccount(a, status) ==
  /\ changes < MaxWrites /\ changes' = changes + 1
  /\ accounts' = [accounts EXCEPT ![a] = status]
  /\ UNCHANGED <<estate, view, page, saving, disagree>>

-----------------------------------------------------------------------------
EstateInit ==
  /\ accounts \in [Assets -> {"counted", "uncounted"}]
  /\ estate = [plan |-> "none", beneficiary |-> [b \in Beneficiaries |-> "none"],
               directive |-> [a \in Assets |-> "none"], share |-> [r \in FormRows |-> 0]]
  /\ view = Now /\ page = Rendered(view) /\ saving = NoCall /\ disagree = FALSE /\ changes = 0

EstateNext ==
  \/ FetchEstate \/ FetchAccounts \/ PlanDetailsForm \/ SaveRest \/ SaveFails \/ Elsewhere
  \/ \E a \in Assets, inclusion \in {"included", "excluded"} : DirectiveForm(a, inclusion)
  \/ \E r \in FormRows, bps \in 1 .. Full : AllocationForm(r, bps)
  \/ \E r \in FormRows : RemoveShare(r)
  \/ \E b \in Beneficiaries, status \in {"active", "archived"} : SetBeneficiary(b, status)
  \/ \E a \in Assets, status \in {"counted", "uncounted", "archived"} : EditAccount(a, status)

EstateSpec == EstateInit /\ [][EstateNext]_estateVars

-----------------------------------------------------------------------------
(* Properties *)

\* Type invariant; and no tier is ever given away more than once.
PlanTypeOK ==
  /\ accounts \in AccountsType /\ estate \in EstateType
  /\ view \in [accounts : AccountsType, estate : EstateType]
  /\ saving \in {NoCall} \cup DirectiveCalls \cup ShareCalls
  /\ disagree \in BOOLEAN /\ changes \in 0 .. MaxWrites
  /\ \A list \in Assets \cup {Residue}, tier \in PlanTiers : tierTotal(Now, list, tier) <= Full

\* What of an asset goes to beneficiaries of the plan, asset first, residue second.
Reaches(v, a) ==
  LET to(list) == given(v.estate.share, list, "primary", activeBeneficiaries(v))
  IN  to(a) = Full \/ to(Residue) = Full

\* The summary page says that every included asset is covered only if all of it
\* reaches active beneficiaries, whoever was archived and whatever was excluded
\* since shares were given; and then the overview ticks the distribution off.
CoveredIsCovered ==
  page.covered =>
    /\ \A a \in included(view) : Reaches(view, a) /\ Named(view, a) \subseteq activeBeneficiaries(view)
    /\ included(view) # {} => page.done

\* On a page that is up to date the form lets a share through exactly if the
\* server takes it, whatever was shared out, archived or excluded before.  This
\* is said once there is a plan: without one the form's first request makes it.
FormMatchesServer == ~disagree

\* What the pages call covered is, and a share they let through is accepted.
EstateAgrees == CoveredIsCovered /\ FormMatchesServer

=============================================================================
