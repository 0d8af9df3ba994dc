------------------------------- MODULE Estate -------------------------------
(***************************************************************************)
(* The estate plan of one user: internal/service/estate_mutations.go.      *)
(*                                                                         *)
(* Shares of a list (an asset's directive, or the residue of the plan) are *)
(* given to beneficiaries tier by tier, and a tier should never be given   *)
(* away more than once; summaries of the plan are numbered.  Both rules    *)
(* are enforced by reading first and writing later:                        *)
(*   - upsertAllocation runs under READ COMMITTED and locks nothing while  *)
(*     it adds up the shares of the others;                                *)
(*   - CreateSnapshot runs under REPEATABLE READ: all it reads is as of its*)
(*     first SELECT, the one before it locks the plan.                     *)
(* The other handlers write with one statement and decide nothing from     *)
(* what they read.  Left out: the content of a summary, read as of that    *)
(* same moment; the accounts, whose deletion takes their directive along;  *)
(* the creation of the plan and of beneficiaries.                          *)
(***************************************************************************)
EXTENDS Integers, FiniteSets, FiniteSetsExt, EstateTerms

CONSTANTS
  Workers,        \* requests in progress at once
  Lists,          \* what is shared out: assets, and Residue
  Tiers,          \* primary, contingent
  MaxVersion,     \* BOUND: versions given out
  MaxEdits        \* BOUND: updates of the plan's own row

ASSUME EstateAssumption ==
  /\ IsFiniteSet(Workers) /\ IsFiniteSet(Beneficiaries)
  /\ {Full, MaxVersion, MaxEdits} \subseteq Nat /\ Full > 0

VARIABLES
  beneficiary,  \* active or archived
  directive,    \* none, included or excluded, for each asset
  share,        \* the allocation tables: basis points by list, beneficiary and tier; 0: no row
  edits,        \* updates of the estate_plans row so far
  snapshots,    \* the estate_plan_snapshots table: how many summaries have each version
  tx,           \* the transaction of each worker
  alone         \* HISTORY: workers whose transaction has overlapped no other request

vars == <<beneficiary, directive, share, edits, snapshots, tx, alone>>
tables == <<beneficiary, directive, share, edits, snapshots>>

Directives == Lists \ {Residue}
ShareRows == Lists \X Beneficiaries \X Tiers

\* The plan's own row, as a lock.
Plan == <<"plan">>

\* op: the handler; pc: its next statement; row, bps: the share to set; found:
\* whether the row existed, and is gone since (its successor has another id);
\* held: the row it locked, or the plan; last, seen: the highest version and
\* the edits of the plan as of its first SELECT.
Idle == [op |-> "none", pc |-> "idle", row |-> <<>>, bps |-> 0, found |-> "none",
         held |-> <<>>, last |-> 0, seen |-> 0]

At(w, pc) == tx[w].pc = pc
Free(w, x) == \A v \in Workers \ {w} : tx[v].held # x
Unlocked(x) == \A w \in Workers : tx[w].held # x

\* Inserting a share of the residue locks the plan FOR KEY SHARE (foreign key).
SharesPlan(w) ==
  At(w, "commit") /\ tx[w].op = "upsert" /\ tx[w].found = "none" /\ tx[w].row[1] = Residue

Finish(w) == tx' = [tx EXCEPT ![w] = Idle]

Begin(w, t) ==
  /\ At(w, "idle")
  /\ tx' = [tx EXCEPT ![w] = t]
  /\ alone' = IF \A v \in Workers : At(v, "idle") THEN {w} ELSE {}
  /\ UNCHANGED tables

Private == UNCHANGED <<tables, alone>>

\* A request of one statement overlaps the transactions in progress.
Statement == alone' = {} /\ UNCHANGED tx

-----------------------------------------------------------------------------
(* Allocations *)

\* What a tier of a list gives to the beneficiaries in B.
Given(s, list, tier, B) == MapThenSumSet(LAMBDA b : s[<<list, b, tier>>], B)

\* upsertAllocation: the beneficiary must be active ...
checkBeneficiary(w, r, bps) ==
  /\ beneficiary[r[2]] = "active"
  /\ Begin(w, [Idle EXCEPT !.op = "upsert", !.pc = "included", !.row = r, !.bps = bps])

\* ... and the asset in the plan.
checkIncluded(w) ==
  /\ At(w, "included")
  /\ IF tx[w].row[1] = Residue \/ directive[tx[w].row[1]] = "included"
     THEN tx' = [tx EXCEPT ![w].pc = "existing"] ELSE Finish(w)
  /\ Private

findExisting(w) ==
  /\ At(w, "existing")
  /\ tx' = [tx EXCEPT ![w].pc = "total", ![w].found = IF share[tx[w].row] > 0 THEN "row" ELSE "none"]
  /\ Private

\* The total the other rows of the tier leave: of all rows but the existing one.
otherTotal(w) ==
  LET r == tx[w].row
  IN  Given(share, r[1], r[3], IF tx[w].found = "row" THEN Beneficiaries \ {r[2]} ELSE Beneficiaries)

\* Mutant: the new share is not added to the total.
checkOthers(w) ==
  /\ At(w, "total")
  /\ IF otherTotal(w) <= Full
     THEN tx' = [tx EXCEPT ![w].pc = "write"] ELSE Finish(w)
  /\ Private

checkTotal(w) ==
  /\ At(w, "total")
  /\ IF otherTotal(w) + tx[w].bps <= Full
     THEN tx' = [tx EXCEPT ![w].pc = "write"] ELSE Finish(w)
  /\ Private

\* INSERT or UPDATE, after the others that write the row.  Inserting a row that
\* has appeared is an error; updating one that has gone does nothing.
saveAllocation(w) ==
  LET r == tx[w].row
  IN  /\ At(w, "write")
      /\ tx[w].found # "gone" => Free(w, r)
      /\ tx[w].found = "none" /\ r[1] = Residue => Free(w, Plan)
      /\ IF tx[w].found = "none" /\ share[r] > 0 THEN Finish(w)
         ELSE tx' = [tx EXCEPT ![w].pc = "commit", ![w].held = IF tx[w].found = "gone" THEN <<>> ELSE r]
      /\ Private

CommitAllocation(w) ==
  /\ At(w, "commit") /\ tx[w].op = "upsert"
  /\ share' = IF tx[w].found = "gone" THEN share ELSE [share EXCEPT ![tx[w].row] = tx[w].bps]
  /\ Finish(w)
  /\ UNCHANGED <<beneficiary, directive, edits, snapshots, alone>>

\* DeleteAllocation and DeleteResiduaryAllocation.
DeleteAllocation(r) ==
  /\ share[r] > 0 /\ Unlocked(r)
  /\ share' = [share EXCEPT ![r] = 0]
  /\ tx' = [w \in Workers |-> IF tx[w].found = "row" /\ tx[w].row = r
                             THEN [tx[w] EXCEPT !.found = "gone"] ELSE tx[w]]
  /\ alone' = {} /\ UNCHANGED <<beneficiary, directive, edits, snapshots>>

SetBeneficiaryArchived(b, status) ==
  /\ beneficiary' = [beneficiary EXCEPT ![b] = status]
  /\ Statement /\ UNCHANGED <<directive, share, edits, snapshots>>

\* UpsertDirective: existing shares stay when the asset is excluded.
UpsertDirective(d, inclusion) ==
  /\ directive[d] = "none" => Unlocked(Plan)
  /\ directive' = [directive EXCEPT ![d] = inclusion]
  /\ Statement /\ UNCHANGED <<beneficiary, share, edits, snapshots>>

-----------------------------------------------------------------------------
(* Summaries *)

\* Mutant: the next version counts the summaries kept.
CountVersions == MapThenSumSet(LAMBDA v : snapshots[v], DOMAIN snapshots)

LastVersion == Max({0} \cup {v \in DOMAIN snapshots : snapshots[v] > 0})

\* CreateSnapshot: the first SELECT reads the plan; everything the transaction
\* reads from here on is as of now.
beginSnapshot(w) ==
  Begin(w, [Idle EXCEPT !.op = "snapshot", !.pc = "lock", !.last = LastVersion, !.seen = edits])

\* SELECT ... FOR UPDATE of the plan fails if the row has changed since.
lockPlan(w) ==
  /\ At(w, "lock") /\ Free(w, Plan) /\ \A v \in Workers : ~SharesPlan(v)
  /\ IF edits = tx[w].seen
     THEN tx' = [tx EXCEPT ![w].pc = "commit", ![w].held = Plan] ELSE Finish(w)
  /\ Private

\* The next version, the summary, COMMIT.
CommitSnapshot(w) ==
  /\ At(w, "commit") /\ tx[w].op = "snapshot"
  /\ tx[w].last < MaxVersion
  /\ snapshots' = [snapshots EXCEPT ![tx[w].last + 1] = @ + 1]
  /\ Finish(w)
  /\ UNCHANGED <<beneficiary, directive, share, edits, alone>>

DeleteSnapshot(v) ==
  /\ snapshots[v] > 0
  /\ snapshots' = [snapshots EXCEPT ![v] = @ - 1]
  /\ Statement /\ UNCHANGED <<beneficiary, directive, share, edits>>

\* UpdatePlan: UPDATE estate_plans waits for a summary in progress.
UpdatePlan ==
  /\ edits < MaxEdits /\ Unlocked(Plan)
  /\ edits' = edits + 1
  /\ Statement /\ UNCHANGED <<beneficiary, directive, share, snapshots>>

\* A request is cancelled, or PostgreSQL ends its transaction.
Rollback(w) == ~At(w, "idle") /\ Finish(w) /\ Private

-----------------------------------------------------------------------------
Init ==
  /\ beneficiary = [b \in Beneficiaries |-> "active"]
  /\ directive = [d \in Directives |-> "none"]
  /\ share = [r \in ShareRows |-> 0]
  /\ edits = 0 /\ snapshots = [v \in 1 .. MaxVersion |-> 0]
  /\ tx = [w \in Workers |-> Idle] /\ alone = {}

Step(w) ==
  \/ \E r \in ShareRows, bps \in 1 .. Full : checkBeneficiary(w, r, bps)
  \/ checkIncluded(w) \/ findExisting(w) \/ checkTotal(w)
  \/ saveAllocation(w) \/ CommitAllocation(w)
  \/ beginSnapshot(w) \/ lockPlan(w) \/ CommitSnapshot(w)
  \/ Rollback(w)

Next ==
  \/ \E w \in Workers : Step(w)
  \/ \E r \in ShareRows : DeleteAllocation(r)
  \/ \E b \in Beneficiaries, status \in {"active", "archived"} : SetBeneficiaryArchived(b, status)
  \/ \E d \in Directives, inclusion \in {"included", "excluded"} : UpsertDirective(d, inclusion)
  \/ \E v \in 1 .. MaxVersion : DeleteSnapshot(v)
  \/ UpdatePlan

Spec == Init /\ [][Next]_vars

-----------------------------------------------------------------------------
(* Properties *)

\* Type invariant: no column leaves its range, no two transactions hold the same
\* row or the plan, and a version is given out once for each request at most.
TypeOK ==
  /\ beneficiary \in [Beneficiaries -> {"active", "archived"}]
  /\ directive \in [Directives -> {"none", "included", "excluded"}]
  /\ share \in [ShareRows -> 0 .. Full]
  /\ snapshots \in [1 .. MaxVersion -> 0 .. Cardinality(Workers)]
  /\ \A w \in Workers : tx[w].held = <<>> \/ Free(w, tx[w].held)

\* A request for a share that overlaps no other gives it only to an active
\* beneficiary of an asset in the plan, and never more of the tier than is
\* left, even of a tier that overlapping requests have overrun.
WithinTierStep ==
  \A w \in alone : At(w, "commit") /\ At(w, "idle")' /\ share' # share =>
    LET r == tx[w].row
    IN  /\ beneficiary[r[2]] = "active"
        /\ r[1] # Residue => directive[r[1]] = "included"
        /\ Given(share', r[1], r[3], Beneficiaries) <= Full

\* A summary that overlaps no other request gets the version after the highest
\* kept, also when summaries have been deleted or two of them share a version.
NextVersionStep ==
  \A w \in alone : At(w, "commit") /\ At(w, "idle")' /\ snapshots' # snapshots =>
    \E v \in 1 .. MaxVersion :
      /\ snapshots' = [snapshots EXCEPT ![v] = 1]
      /\ v = 1 \/ snapshots[v - 1] > 0
      /\ \A u \in v .. MaxVersion : snapshots[u] = 0

\* A request that overlaps no other keeps the shares of a tier within the whole,
\* and gives its summary the next version.
Alone == [][WithinTierStep /\ NextVersionStep]_vars

\* The comment in CreateSnapshot: concurrent summaries get distinct versions.
DistinctVersions == \A v \in 1 .. MaxVersion : snapshots[v] <= 1

=============================================================================
